---- MODULE Spec2Model ----
(***************************************************************************)
(* The metadata layer of the library catalogue (src/metadata_layer.py):    *)
(* CirculationData.apply merges license counts, links and delivery         *)
(* formats into a LicensePool; Metadata.apply merges descriptive metadata  *)
(* into an Edition.  The record store (LicensePool, delivery mechanisms,   *)
(* hyperlinks, coverage records) is the state; every call of apply is one  *)
(* action that runs the whole handler.                                     *)
(***************************************************************************)
EXTENDS Integers, Sequences, FiniteSets, TLC

(***************************************************************************)
(* Bounds of the model.                                                    *)
(***************************************************************************)
\* Timestamps are 1..MaxTime; the clock stops at MaxTime.
MaxTime == 2
\* License counts supplied by a record are 0..MaxCount.
MaxCount == 1

(***************************************************************************)
(* Python's None.  A missing string is "None", a missing count is NoCount, *)
(* a missing timestamp is NoTime (both are falsy or None in the code).     *)
(***************************************************************************)
None == "None"
NoCount == -1
NoTime == 0
Times == 1..MaxTime

(***************************************************************************)
(* Constants of the persistent model that metadata_layer.py reads.         *)
(***************************************************************************)
OPEN_ACCESS_DOWNLOAD == "open-access-download"
DRM_ENCRYPTED_DOWNLOAD == "drm-encrypted-download"
IMAGE == "image"
THUMBNAIL_IMAGE == "thumbnail"
DESCRIPTION == "description"
CIRCULATION_ALLOWED == {OPEN_ACCESS_DOWNLOAD, DRM_ENCRYPTED_DOWNLOAD}
METADATA_ALLOWED == {IMAGE, THUMBNAIL_IMAGE, DESCRIPTION}
MIRRORED == {OPEN_ACCESS_DOWNLOAD, IMAGE}

IN_COPYRIGHT == "in-copyright"
GENERIC_OPEN_ACCESS == "generic-open-access"
PUBLIC_DOMAIN_USA == "public-domain-usa"
UNKNOWN == "unknown"
OPEN_ACCESS == {GENERIC_OPEN_ACCESS, PUBLIC_DOMAIN_USA}

EPUB == "application/epub+zip"
JPEG == "image/jpeg"
BOOK_MEDIA_TYPES == {EPUB}
NO_DRM == "no-drm"
ADOBE_DRM == "adobe-drm"

\* The data sources of the model: a license source and two metadata sources.
LICENSE_SOURCE == "Overdrive"
METADATA_SOURCE == "Metadata Wrangler"
OTHER_SOURCE == "NYT"
\* RightsStatus.DATA_SOURCE_DEFAULT_RIGHTS_STATUS.get(name, None): none of the
\* model's sources has a default.
DataSourceDefaultRights(data_source_name) == None

\* One collection, with the libraries attached to it.
Collections == {"c1"}
Libraries == {"lib1", "lib2"}
LibrariesOf(collection) == Libraries
Loans == {"loan1"}

(***************************************************************************)
(* Value objects.                                                          *)
(***************************************************************************)
\* LinkData(rel, href, media_type, rights_uri); NoLink stands for "no link".
\* thumbnail is the href of the link's thumbnail LinkData, None without one.
LinkData(rel, href, media_type, rights_uri) ==
    [rel |-> rel, href |-> href, media_type |-> media_type,
     rights_uri |-> rights_uri, thumbnail |-> None]

NoLink == LinkData(None, None, None, None)

\* FormatData.__init__: the rights URI defaults to the link's.
FormatData(content_type, drm_scheme, link, rights_uri) ==
    [content_type |-> content_type,
     drm_scheme |-> drm_scheme,
     link |-> link,
     rights_uri |-> IF rights_uri = None /\ link # NoLink /\ link.rights_uri # None
                    THEN link.rights_uri
                    ELSE rights_uri]

\* ReplacementPolicy.__init__ with its defaults.
ReplacementPolicy ==
    [identifiers |-> FALSE, subjects |-> FALSE, contributions |-> FALSE,
     links |-> FALSE, formats |-> FALSE, rights |-> FALSE,
     link_content |-> FALSE, mirror |-> FALSE, analytics |-> FALSE,
     even_if_not_apparently_updated |-> FALSE,
     \* presentation_calculation_policy: PresentationCalculationPolicy()
     set_edition_metadata |-> TRUE, choose_cover |-> TRUE]

\* ReplacementPolicy.from_license_source: overwrite everything, wire analytics.
FromLicenseSource ==
    [ReplacementPolicy EXCEPT !.identifiers = TRUE, !.subjects = TRUE,
                              !.contributions = TRUE, !.links = TRUE,
                              !.rights = TRUE, !.formats = TRUE,
                              !.analytics = TRUE]

\* ReplacementPolicy.from_metadata_source: never rights or formats.
FromMetadataSource ==
    [ReplacementPolicy EXCEPT !.identifiers = TRUE, !.subjects = TRUE,
                              !.contributions = TRUE, !.links = TRUE,
                              !.rights = FALSE, !.formats = FALSE]

\* ReplacementPolicy.append_only.
AppendOnly == ReplacementPolicy

(***************************************************************************)
(* CirculationData: construction.                                          *)
(***************************************************************************)
\* CirculationData.set_default_rights_uri: explicit > per-source default > unknown.
SetDefaultRightsURI(data_source_name, default_rights_uri) ==
    IF default_rights_uri # None THEN default_rights_uri
    ELSE IF data_source_name # None /\ DataSourceDefaultRights(data_source_name) # None
         THEN DataSourceDefaultRights(data_source_name)
         ELSE UNKNOWN

\* A variant of the setters that keeps the links of the assignment before.
KeepOldLinks(links) == links

\* "start by deleting any old links": both links setters begin with an empty
\* list.
ResetLinks(links) == <<>>

\* A variant of the search that never finds the format.
FormatNeverFound(formats, href) == 0

\* The index of the first format whose link has this href, 0 if there is none.
FormatWithHref(formats, href) ==
    LET hits == {i \in 1..Len(formats) :
                    formats[i].link # NoLink /\ formats[i].link.href = href}
    IN IF hits = {} THEN 0 ELSE CHOOSE i \in hits : \A j \in hits : i <= j

\* The links setter of CirculationData: keeps the circulation-relevant links
\* and derives a FormatData for every open-access link.
RECURSIVE CirculationLinksSetter(_, _, _, _)
CirculationLinksSetter(arg_links, links, formats, default_rights_uri) ==
    IF arg_links = <<>> THEN [links |-> links, formats |-> formats]
    ELSE
      LET link == Head(arg_links)
          open_access_link == link.rel = OPEN_ACCESS_DOWNLOAD /\ link.href # None
          rights0 == IF link.rights_uri # None THEN link.rights_uri
                     ELSE default_rights_uri
          open_access_rights_link ==
              /\ link.media_type \in BOOK_MEDIA_TYPES
              /\ link.href # None
              /\ rights0 \in OPEN_ACCESS
          rights_uri == IF /\ open_access_link
                           /\ rights0 # IN_COPYRIGHT
                           /\ rights0 \notin OPEN_ACCESS
                        THEN GENERIC_OPEN_ACCESS
                        ELSE rights0
          found == FormatWithHref(formats, link.href)
          formats2 ==
              IF ~(open_access_link \/ open_access_rights_link) THEN formats
              ELSE IF found # 0
                   THEN IF formats[found].rights_uri = None
                        THEN [formats EXCEPT ![found].rights_uri = rights_uri]
                        ELSE formats
                   ELSE Append(formats,
                               FormatData(link.media_type, NO_DRM, link, rights_uri))
      IN IF link.rel \in CIRCULATION_ALLOWED
         THEN CirculationLinksSetter(Tail(arg_links), Append(links, link),
                                     formats2, default_rights_uri)
         ELSE CirculationLinksSetter(Tail(arg_links), links, formats,
                                     default_rights_uri)

\* CirculationData.__init__.  args holds the constructor's arguments; utcnow is
\* the clock at construction, used when no last_checked is supplied.
CirculationData(args, utcnow) ==
    LET default == SetDefaultRightsURI(args.data_source, args.default_rights_uri)
        set == CirculationLinksSetter(args.links, <<>>, args.formats, default)
    IN [data_source |-> args.data_source,
        licenses_owned |-> args.licenses_owned,
        licenses_available |-> args.licenses_available,
        licenses_reserved |-> args.licenses_reserved,
        patrons_in_hold_queue |-> args.patrons_in_hold_queue,
        last_checked |-> IF args.last_checked = NoTime THEN utcnow
                         ELSE args.last_checked,
        default_rights_uri |-> default,
        links |-> set.links,
        formats |-> set.formats]

\* CirculationData.has_open_access_link.
HasOpenAccessLink(rec) ==
    \E i \in 1..Len(rec.links) :
        /\ rec.links[i].rel = OPEN_ACCESS_DOWNLOAD
        /\ rec.links[i].href # None
        /\ rec.links[i].rights_uri # IN_COPYRIGHT


(***************************************************************************)
(* The record store.  One title identifier and one license source, so a    *)
(* LicensePool is keyed by its collection and a delivery mechanism by      *)
(* (content type, DRM scheme).                                             *)
(***************************************************************************)
VARIABLES
    now,          \* the clock read by datetime.datetime.utcnow()
    pools,        \* collection -> LicensePool, for the pools that exist
    lpdms,        \* the LicensePoolDeliveryMechanisms of the identifier
    loans,        \* loan -> the delivery mechanism that fulfils it
    hyperlinks,   \* the Hyperlinks of the identifier
    events,       \* library -> number of "distributor title added" events
    mirrored,     \* hrefs whose Representation has a mirror_url
    edition,      \* the Edition: its fields, author strings and cover
    contributors, \* the Contributor rows: sort name and display name
    contributions,\* the Contributions of the edition: contributor and role
    equivalencies,\* the Equivalencies from the edition's identifier
    classifications, \* the Classifications of the identifier
    measurements, \* the Measurements of the identifier, oldest first
    coverage,     \* (data source, operation) -> CoverageRecord timestamp
    circ,         \* the CirculationData object in hand: <<>> or <<[args, rec]>>
    metadata,     \* the Metadata object in hand: <<>> or <<[args, md]>>
    ret,          \* the last call: what was called and what it returned
    stamped       \* history: data source -> the greatest data_source_last_updated
                  \* of a Metadata.apply that ran to its coverage record

circVars == <<pools, lpdms, loans, hyperlinks, events, mirrored>>
metaVars == <<edition, contributors, contributions, equivalencies,
              classifications, measurements, coverage>>
vars == <<now, circVars, metaVars, circ, metadata, ret, stamped>>

\* The store as one value, threaded through the steps of a handler.
Store ==
    [pools |-> pools, lpdms |-> lpdms, loans |-> loans,
     hyperlinks |-> hyperlinks, events |-> events, mirrored |-> mirrored,
     edition |-> edition, contributors |-> contributors,
     contributions |-> contributions, equivalencies |-> equivalencies,
     classifications |-> classifications, measurements |-> measurements,
     coverage |-> coverage,
     \* what the running call has asked of its collaborators so far: the
     \* fetches of Representation.get and the uploads of mirror.mirror_one
     fetches |-> {}, uploads |-> {}]

\* A LicensePool row as the store creates it.
NewLicensePool ==
    [licenses_owned |-> 0, licenses_available |-> 0, licenses_reserved |-> 0,
     patrons_in_hold_queue |-> 0, last_checked |-> NoTime,
     availability_time |-> NoTime, open_access |-> FALSE,
     suppressed |-> FALSE, license_exception |-> None]

\* LicensePool.for_foreign_id: find or create, keyed by
\* (source, identifier type, identifier, collection).
LicensePoolForForeignId(ps, collection) ==
    IF collection \in DOMAIN ps
    THEN [pools |-> ps, is_new |-> FALSE]
    ELSE [pools |-> ps @@ (collection :> NewLicensePool), is_new |-> TRUE]

LicenseCounts(pool) ==
    <<pool.licenses_owned, pool.licenses_available,
      pool.licenses_reserved, pool.patrons_in_hold_queue>>

\* LicensePool.update_availability: a count that is None is left alone, the
\* others are stored; last_checked becomes as_of; returns whether a count changed.
UpdateAvailability(pool, rec) ==
    LET pick(new, old) == IF new = NoCount THEN old ELSE new
        updated ==
            [pool EXCEPT
                !.licenses_owned = pick(rec.licenses_owned, @),
                !.licenses_available = pick(rec.licenses_available, @),
                !.licenses_reserved = pick(rec.licenses_reserved, @),
                !.patrons_in_hold_queue = pick(rec.patrons_in_hold_queue, @),
                !.last_checked = rec.last_checked]
    IN [pool |-> updated,
        changed |-> LicenseCounts(updated) # LicenseCounts(pool)]

\* LicensePool.set_open_access_status, run by LicensePoolDeliveryMechanism.set
\* and .delete for every pool of the identifier.
SetOpenAccessStatus(ps, ms) ==
    [c \in DOMAIN ps |->
        [ps[c] EXCEPT !.open_access = \E m \in ms : m.rights_uri \in OPEN_ACCESS]]

MechanismKey(m) == [content_type |-> m.content_type, drm_scheme |-> m.drm_scheme]
NoFulfillment == [content_type |-> None, drm_scheme |-> None]

\* LicensePoolDeliveryMechanism.set: upsert keyed by (content type, DRM scheme).
LPDMSet(S, content_type, drm_scheme, rights_uri, resource) ==
    LET key == [content_type |-> content_type, drm_scheme |-> drm_scheme]
        ms == {m \in S.lpdms : MechanismKey(m) # key}
                \cup {[content_type |-> content_type, drm_scheme |-> drm_scheme,
                       rights_uri |-> rights_uri, resource |-> resource]}
    IN [S EXCEPT !.lpdms = ms, !.pools = SetOpenAccessStatus(S.pools, ms)]

\* LicensePoolDeliveryMechanism.delete.
LPDMDelete(S, key) ==
    LET ms == {m \in S.lpdms : MechanismKey(m) # key}
    IN [S EXCEPT !.lpdms = ms, !.pools = SetOpenAccessStatus(S.pools, ms)]

\* Identifier.add_link: create the Hyperlink if it is absent.
AddLink(S, link, data_source) ==
    [S EXCEPT !.hyperlinks =
        @ \cup {[rel |-> link.rel, href |-> link.href, data_source |-> data_source]}]


(***************************************************************************)
(* MetaToModelUtility.mirror_link.  fetch is what the content-fetch and    *)
(* mirror collaborators answer in this call.                               *)
(***************************************************************************)
FetchOutcome(fetch_exception, status_code, mirrorable, mirror_exception) ==
    [fetch_exception |-> fetch_exception, status_code |-> status_code,
     mirrorable |-> mirrorable, mirror_exception |-> mirror_exception]

\* The link is fetched and mirrored without trouble.
NoFetch == FetchOutcome(FALSE, 200, TRUE, FALSE)

\* Every pool in cs is suppressed, with the reason recorded.
SuppressPools(ps, cs, reason) ==
    [c \in DOMAIN ps |->
        IF c \in cs
        THEN [ps[c] EXCEPT !.suppressed = TRUE, !.license_exception = reason]
        ELSE ps[c]]

\* The Hyperlink row that mirror_link is given: its relation and the
\* identifier it belongs to.
LinkObj(rel, identifier) == [rel |-> rel, identifier |-> identifier]

\* A variant that takes every relation for a mirrored one.
AnyRelation(rel) == TRUE

\* "if link_obj.rel not in Hyperlink.MIRRORED: return".
MirrorEligible(rel) == rel \in MIRRORED

\* A variant that suppresses the pools whatever the link is.
SuppressesForAnyLink(owner_pools, rel) == owner_pools # {}

\* "if pools and link.rel == Hyperlink.OPEN_ACCESS_DOWNLOAD".
SuppressesPools(owner_pools, rel) ==
    owner_pools # {} /\ rel = OPEN_ACCESS_DOWNLOAD

\* A variant in which a successful upload lifts the suppression.
UnsuppressAfterMirror(ps, owner_pools, rel, mirror_exception) ==
    IF ~SuppressesPools(owner_pools, rel) THEN ps
    ELSE IF mirror_exception THEN SuppressPools(ps, owner_pools, "Mirror exception")
    ELSE [c \in DOMAIN ps |->
             IF c \in owner_pools
             THEN [ps[c] EXCEPT !.suppressed = FALSE, !.license_exception = None]
             ELSE ps[c]]

\* "if representation.mirror_exception: if pools and link.rel ==
\* Hyperlink.OPEN_ACCESS_DOWNLOAD: for pool in pools: ...": the pools after
\* mirror_one.
SuppressAfterMirror(ps, owner_pools, rel, mirror_exception) ==
    IF mirror_exception /\ SuppressesPools(owner_pools, rel)
    THEN SuppressPools(ps, owner_pools, "Mirror exception")
    ELSE ps

\* mirror_link(model_object, data_source, link, link_obj, policy): owner_pools
\* are the pools of model_object and identifier is its identifier, None when
\* it has none.  Returns the store and whether mirror_one was called.
MirrorLink(S, owner_pools, identifier, link, link_obj, policy, fetch) ==
    LET skip == [store |-> S, uploaded |-> FALSE]
        suppress(T, reason) ==
            IF SuppressesPools(owner_pools, link.rel)
            THEN [T EXCEPT !.pools = SuppressPools(T.pools, owner_pools, reason)]
            ELSE T
        \* Representation.get has fetched the link
        F == [S EXCEPT !.fetches =
                 @ \cup {[link |-> link, link_obj |-> link_obj,
                          pools |-> owner_pools, identifier |-> identifier]}]
        fetched == [store |-> F, uploaded |-> FALSE]
        upload(thumbnail) ==
            [link |-> link, link_obj |-> link_obj, identifier |-> identifier,
             thumbnail |-> thumbnail, was_mirrored |-> link.href \in S.mirrored]
        \* mirror_one for the representation and, for an image, for the
        \* thumbnail scaled from it
        U == [F EXCEPT !.mirrored = @ \cup {link.href},
                       !.uploads = @ \cup {upload(FALSE)}
                                     \cup (IF link_obj.rel = IMAGE
                                           THEN {upload(TRUE)} ELSE {})]
    IN IF ~MirrorEligible(link_obj.rel) THEN skip
       ELSE IF link.rights_uri # None /\ link.rights_uri = IN_COPYRIGHT THEN skip
       ELSE IF \/ identifier = None
               \/ link_obj.identifier # None /\ identifier # link_obj.identifier
            THEN skip
       ELSE IF fetch.fetch_exception
            THEN [store |-> suppress(F, "Fetch exception"), uploaded |-> FALSE]
       ELSE IF fetch.status_code = 304 /\ link.href \in S.mirrored THEN fetched
       ELSE IF (fetch.status_code \div 100) \notin {2, 3} THEN fetched
       ELSE IF ~fetch.mirrorable THEN fetched
       ELSE [store |-> [U EXCEPT !.pools =
                          SuppressAfterMirror(@, owner_pools, link.rel,
                                              fetch.mirror_exception)],
             uploaded |-> TRUE]

\* The mirroring loop of an apply: mirror_link for every link, in order, each
\* with the hyperlink that add_link made for it.
RECURSIVE MirrorLinks(_, _, _, _, _, _)
MirrorLinks(S, owner_pools, identifier, links, policy, fetch) ==
    IF links = <<>> THEN S
    ELSE MirrorLinks(
            MirrorLink(S, owner_pools, identifier, Head(links),
                       LinkObj(Head(links).rel, "id1"), policy, fetch).store,
            owner_pools, identifier, Tail(links), policy, fetch)

(***************************************************************************)
(* CirculationData.apply.                                                  *)
(***************************************************************************)
\* A variant of the first check that looks at licenses_owned only.
MissingCollectionOwnedOnly(rec, collection) ==
    collection = None /\ rec.licenses_owned # NoCount

\* apply's first check: counts were supplied but no collection was.
MissingCollection(rec, collection) ==
    /\ collection = None
    /\ \/ rec.licenses_owned # NoCount
       \/ rec.licenses_available # NoCount
       \/ rec.licenses_reserved # NoCount
       \/ rec.patrons_in_hold_queue # NoCount

\* A variant that sends the event whenever an analytics sink is given.
EmitsOnEveryApply(is_new, analytics) == analytics

\* license_pool: a "distributor title added" event goes to every library of
\* the collection when the pool is new and an analytics sink is given.
EmitsTitleAdd(is_new, analytics) == is_new /\ analytics

\* CirculationData.license_pool(_db, collection, analytics).
LicensePool(S, rec, collection, analytics) ==
    LET found == LicensePoolForForeignId(S.pools, collection)
        created == [found.pools EXCEPT
                       ![collection].open_access = HasOpenAccessLink(rec),
                       ![collection].availability_time = rec.last_checked,
                       ![collection].last_checked = rec.last_checked]
    IN [store |->
            [S EXCEPT
                !.pools = IF found.is_new THEN created ELSE found.pools,
                !.events = [lib \in DOMAIN S.events |->
                               IF /\ EmitsTitleAdd(found.is_new, analytics)
                                  /\ lib \in LibrariesOf(collection)
                               THEN S.events[lib] + 1
                               ELSE S.events[lib]]],
        is_new |-> found.is_new]

\* A variant without the staleness gate: every record updates the pool.
AlwaysNeedsUpdate(rec, pool) == TRUE

\* CirculationData._availability_needs_update.
AvailabilityNeedsUpdate(rec, pool) ==
    IF rec.last_checked = NoTime THEN TRUE
    ELSE IF pool.last_checked = NoTime THEN TRUE
    ELSE rec.last_checked >= pool.last_checked

\* The links of apply's first loop: a hyperlink for each circulation link.
RECURSIVE AddLinks(_, _, _)
AddLinks(S, links, data_source) ==
    IF links = <<>> THEN S
    ELSE AddLinks(
            IF Head(links).rel \in CIRCULATION_ALLOWED
            THEN AddLink(S, Head(links), data_source)
            ELSE S,
            Tail(links), data_source)

InSeq(x, seq) == \E i \in 1..Len(seq) : seq[i] = x

\* apply's loop over self.formats: LicensePoolDeliveryMechanism.set for each.
\* A format whose link has no hyperlink (link_objects[format.link]) ends the
\* call with a KeyError.  new_lpdms collects the keys of the mechanisms set.
RECURSIVE SetFormats(_, _, _, _)
SetFormats(S, rec, formats, new_lpdms) ==
    IF formats = <<>>
    THEN [store |-> S, new_lpdms |-> new_lpdms, error |-> FALSE]
    ELSE
      LET format == Head(formats)
          content_type == IF format.link # NoLink /\ format.content_type = None
                          THEN format.link.media_type
                          ELSE format.content_type
          resource == IF format.link # NoLink THEN format.link.href ELSE None
          rights_uri == IF format.rights_uri # None THEN format.rights_uri
                        ELSE rec.default_rights_uri
      IN IF format.link # NoLink /\ ~InSeq(format.link, rec.links)
         THEN [store |-> S, new_lpdms |-> new_lpdms, error |-> TRUE]
         ELSE SetFormats(
                 LPDMSet(S, content_type, format.drm_scheme, rights_uri, resource),
                 rec, Tail(formats),
                 new_lpdms \cup {[content_type |-> content_type,
                                  drm_scheme |-> format.drm_scheme]})

\* The mechanisms apply removes: with policy.formats, those the pool had before
\* the call that the record's formats did not set.
RemovedMechanisms(policy, old_lpdms, new_lpdms) ==
    IF policy.formats THEN old_lpdms \ new_lpdms ELSE {}

\* A variant that deletes a mechanism without clearing its loans.
KeepFulfillment(ls, key) == ls

\* "loan.fulfillment = None" for every loan the mechanism fulfils.
ClearFulfillment(ls, key) ==
    [l \in DOMAIN ls |-> IF ls[l] = key THEN NoFulfillment ELSE ls[l]]

\* The removal loop: clear the loans of each removed mechanism, then delete it.
RECURSIVE DeleteMechanisms(_, _)
DeleteMechanisms(S, keys) ==
    IF keys = {} THEN S
    ELSE LET key == CHOOSE k \in keys : TRUE
             S1 == [S EXCEPT !.loans = ClearFulfillment(S.loans, key)]
         IN DeleteMechanisms(LPDMDelete(S1, key), keys \ {key})

AnyOpenAccess(ps) == \E c \in DOMAIN ps : ps[c].open_access

\* Variants of the return value: one reports an identifier that is open
\* access after the call, one reports the counts only.
MadeChangesOpenAccessNow(changed_availability, old_open_access, new_open_access) ==
    changed_availability \/ new_open_access
MadeChangesCountsOnly(changed_availability, old_open_access, new_open_access) ==
    changed_availability

\* apply's return value.
MadeChanges(changed_availability, old_open_access, new_open_access) ==
    changed_availability \/ (old_open_access # new_open_access)

\* CirculationData.apply(_db, collection, replace) on store S.  Returns the new
\* store, how the call ended and the flag it returned.
CirculationApply(S, rec, collection, replace, fetch) ==
    IF MissingCollection(rec, collection)
    THEN [store |-> S, status |-> "ValueError", changed |-> FALSE, is_new |-> FALSE]
    ELSE
      LET lp == IF collection # None
                THEN LicensePool(S, rec, collection, replace.analytics)
                ELSE [store |-> S, is_new |-> FALSE]
          S2 == AddLinks(lp.store, rec.links, rec.data_source)
          owner == IF collection # None THEN {collection} ELSE {}
          S3 == IF replace.mirror
                THEN MirrorLinks(S2, owner,
                                 IF collection # None THEN "id1" ELSE None,
                                 rec.links, replace, fetch)
                ELSE S2
          \* "old_lpdms = new_lpdms = []": without a pool both stay empty.
          old_lpdms == IF collection # None
                       THEN {MechanismKey(m) : m \in S3.lpdms}
                       ELSE {}
          old_open_access == AnyOpenAccess(S3.pools)
          set == SetFormats(S3, rec, rec.formats, {})
          S5 == DeleteMechanisms(set.store,
                                 RemovedMechanisms(replace, old_lpdms, set.new_lpdms))
          new_open_access == AnyOpenAccess(S5.pools)
          needs_update == /\ collection # None
                          /\ AvailabilityNeedsUpdate(rec, S5.pools[collection])
          updated == UpdateAvailability(S5.pools[collection], rec)
          S6 == IF needs_update
                THEN [S5 EXCEPT !.pools[collection] = updated.pool]
                ELSE S5
          changed_availability == needs_update /\ updated.changed
      IN IF set.error
         THEN [store |-> set.store, status |-> "KeyError", changed |-> FALSE,
               is_new |-> lp.is_new]
         ELSE [store |-> S6, status |-> "ok",
               changed |-> MadeChanges(changed_availability,
                                       old_open_access, new_open_access),
               is_new |-> lp.is_new]


(***************************************************************************)
(* Metadata: construction.                                                 *)
(***************************************************************************)
BOOK_MEDIUM == "Book"
UNKNOWN_AUTHOR == "[Unknown]"
AUTHOR_ROLE == "Author"
PRIMARY_AUTHOR_ROLE == "Primary Author"
ILLUSTRATOR_ROLE == "Illustrator"
\* Contributor.author_contributor_tiers(): the primary-author tier first.
AuthorContributorTiers == <<{PRIMARY_AUTHOR_ROLE}, {AUTHOR_ROLE}>>
\* classifier.NO_VALUE and classifier.NO_NUMBER.
NO_VALUE == "NONE"
NO_NUMBER == "-1"

\* Metadata.BASIC_EDITION_FIELDS.
BASIC_EDITION_FIELDS ==
    <<"title", "sort_title", "subtitle", "language", "medium", "series",
      "series_position", "publisher", "imprint", "issued", "published">>
EditionFields == BASIC_EDITION_FIELDS \o <<"permanent_work_id">>
FieldNames == {EditionFields[i] : i \in 1..Len(EditionFields)}

\* The identifier of the edition of the model, and another one.
IdentifierData(type, identifier, weight) ==
    [type |-> type, identifier |-> identifier, weight |-> weight]
NoIdentifier == IdentifierData(None, None, 1)
OVERDRIVE_ID == "Overdrive ID"
ISBN == "ISBN"
EditionIdentifier == IdentifierData(OVERDRIVE_ID, "id1", 1)

\* LanguageCodes.string_to_alpha_3 on the languages of the model.
StringToAlpha3(language) ==
    CASE language = "en" -> "eng"
      [] language = "es" -> "spa"
      [] OTHER -> language

\* SubjectData.__init__: identifier and name are stripped of white space.
Strip(string) ==
    CASE string = " fiction " -> "fiction"
      [] string = "fiction " -> "fiction"
      [] OTHER -> string

SubjectData(type, identifier, name, weight) ==
    [type |-> type, identifier |-> Strip(identifier), name |-> Strip(name),
     weight |-> weight]

\* SubjectData.key.
SubjectKey(subject) ==
    <<subject.type, subject.identifier, subject.name, subject.weight>>

\* ContributorData.__init__: the roles default to the author role.
ContributorData(sort_name, display_name, roles, lc, viaf) ==
    [sort_name |-> sort_name, display_name |-> display_name,
     roles |-> IF roles = <<>> THEN <<AUTHOR_ROLE>> ELSE roles,
     lc |-> lc, viaf |-> viaf]

\* A ContributorData with every descriptive field, and a Contributor, which
\* has the same ones.  extra is the set of its (key, value) items.
ContributorFields == {"sort_name", "display_name", "family_name",
                      "wikipedia_name", "lc", "viaf", "biography"}
DescribedContributor(sort_name, display_name, lc, aliases, extra) ==
    [sort_name |-> sort_name, display_name |-> display_name,
     family_name |-> None, wikipedia_name |-> None,
     lc |-> lc, viaf |-> None, biography |-> None,
     aliases |-> aliases, extra |-> extra]

\* The loop over [self.sort_name] + self.aliases of ContributorData.apply:
\* existing_aliases is the set taken before the loop.
RECURSIVE NewAliases(_, _, _, _)
NewAliases(names, sort_name, existing_aliases, new_aliases) ==
    IF names = <<>> THEN new_aliases
    ELSE NewAliases(Tail(names), sort_name, existing_aliases,
                    IF Head(names) # sort_name /\ Head(names) \notin existing_aliases
                    THEN Append(new_aliases, Head(names))
                    ELSE new_aliases)

\* One "if self.f and self.f != destination.f: destination.f = self.f".
Overwrites(self, destination, f) == self[f] # None /\ self[f] # destination[f]

\* ContributorData.apply(destination): the destination afterwards and the
\* made_changes flag.
ContributorDataApply(self, destination) ==
    LET sort_name == IF Overwrites(self, destination, "sort_name")
                     THEN self.sort_name ELSE destination.sort_name
        existing_aliases == {destination.aliases[i] : i \in 1..Len(destination.aliases)}
        new_aliases == NewAliases(<<self.sort_name>> \o self.aliases, sort_name,
                                  existing_aliases, destination.aliases)
        absent == {e \in self.extra : \A d \in destination.extra : d.key # e.key}
    IN [destination |->
            [f \in ContributorFields |->
                IF Overwrites(self, destination, f) THEN self[f] ELSE destination[f]]
            @@ [aliases |-> new_aliases, extra |-> destination.extra \cup absent],
        made_changes |->
            \/ \E f \in ContributorFields : Overwrites(self, destination, f)
            \/ new_aliases # destination.aliases]

MeasurementData(quantity_measured, value, weight) ==
    [quantity_measured |-> quantity_measured, value |-> value, weight |-> weight]

\* The links setter of Metadata: keeps the metadata-relevant links.
MetadataLinksSetter(arg_links) ==
    SelectSeq(arg_links, LAMBDA link : link.rel \in METADATA_ALLOWED)

\* Metadata.__init__.  args.circulation is <<>> or one CirculationData.
Metadata(args) ==
    [data_source |-> args.data_source,
     fields |-> [f \in FieldNames |->
                    IF f = "language" /\ args.fields[f] # None
                    THEN StringToAlpha3(args.fields[f])
                    ELSE IF f = "permanent_work_id" THEN None
                    ELSE args.fields[f]],
     primary_identifier |-> args.primary_identifier,
     identifiers |-> IF /\ args.primary_identifier # NoIdentifier
                        /\ ~InSeq(args.primary_identifier, args.identifiers)
                     THEN Append(args.identifiers, args.primary_identifier)
                     ELSE args.identifiers,
     subjects |-> args.subjects,
     contributors |-> args.contributors,
     measurements |-> args.measurements,
     links |-> MetadataLinksSetter(args.links),
     circulation |-> args.circulation,
     data_source_last_updated |-> args.data_source_last_updated]

\* Metadata.primary_author: the first contributor of the earliest tier that
\* matches anyone; NoContributor when no tier does.
NoContributor == ContributorData(None, None, <<None>>, None, None)
PrimaryAuthor(md) ==
    LET inTier(t) == {i \in 1..Len(md.contributors) :
                         \E r \in AuthorContributorTiers[t] :
                             InSeq(r, md.contributors[i].roles)}
        tiers == {t \in 1..Len(AuthorContributorTiers) : inTier(t) # {}}
    IN IF tiers = {} THEN NoContributor
       ELSE LET t == CHOOSE x \in tiers : \A y \in tiers : x <= y
                i == CHOOSE x \in inTier(t) : \A y \in inTier(t) : x <= y
            IN md.contributors[i]


(***************************************************************************)
(* Edition: the presentation of model/edition.py.  A joined string of      *)
(* names is modelled as the sequence of the names, <<>> for None.          *)
(***************************************************************************)
MELVILLE == "Melville, Herman"
HAWTHORNE == "Hawthorne, Nathaniel"
\* The sort names of the model in sorted order.
NameOrder == <<HAWTHORNE, MELVILLE>>
\* Contributor.default_names: the display name a sort name stands for.
DisplayFromSort(sort_name) ==
    CASE sort_name = MELVILLE -> "Herman Melville"
      [] sort_name = HAWTHORNE -> "Nathaniel Hawthorne"
      [] OTHER -> sort_name

\* TitleProcessor.sort_title_for: a leading article moves to the end.
SortTitleFor(title) ==
    CASE title = "The Whale" -> "Whale, The"
      [] OTHER -> title

\* WorkIDCalculator.normalize_title and normalize_author: case, punctuation
\* and spacing are dropped.
NormalizeTitle(title) ==
    CASE title = "Moby-Dick" -> "mobydick"
      [] title = "MOBY DICK" -> "mobydick"
      [] title = "The Whale" -> "thewhale"
      [] OTHER -> title
NormalizeAuthor(author) ==
    CASE author = MELVILLE -> "melvilleherman"
      [] author = HAWTHORNE -> "hawthornenathaniel"
      [] author = UNKNOWN_AUTHOR -> "unknown"
      [] OTHER -> author

\* WorkIDCalculator.permanent_id: a digest of the three normalized parts.
PermanentId(norm_title, norm_author, medium) ==
    CASE norm_title = "mobydick" /\ norm_author = "melvilleherman" -> "pwid-mobydick-melville"
      [] norm_title = "mobydick" /\ norm_author = "hawthornenathaniel" -> "pwid-mobydick-hawthorne"
      [] norm_title = "mobydick" /\ norm_author = "unknown" -> "pwid-mobydick-unknown"
      [] norm_title = "thewhale" /\ norm_author = "melvilleherman" -> "pwid-thewhale-melville"
      [] norm_title = "thewhale" /\ norm_author = "hawthornenathaniel" -> "pwid-thewhale-hawthorne"
      [] norm_title = "thewhale" /\ norm_author = "unknown" -> "pwid-thewhale-unknown"
      [] OTHER -> "pwid-other"

\* Edition.calculate_permanent_work_id_for_title_and_author.
CalculatePermanentWorkIdForTitleAndAuthor(title, author, medium) ==
    PermanentId(NormalizeTitle(title), NormalizeAuthor(author), medium)

AUTHOR_ROLES == {PRIMARY_AUTHOR_ROLE, AUTHOR_ROLE}

\* Edition.author_contributors, as the ids of the contributors: the only
\* contributor whatever the role, else those with an author role.
AuthorContributors(cs) ==
    IF Cardinality(cs) = 1 THEN {c.contributor : c \in cs}
    ELSE {c.contributor : c \in {x \in cs : x.role \in AUTHOR_ROLES}}

\* The first of Edition.author_contributors: the primary author, else the
\* first author by sort name; None without authors.
FirstAuthor(cs) ==
    LET authors == AuthorContributors(cs)
        primary == {c.contributor : c \in {x \in cs : x.role = PRIMARY_AUTHOR_ROLE}}
        sorted == SelectSeq(NameOrder, LAMBDA n : n \in authors)
    IN IF authors = {} THEN None
       ELSE IF Cardinality(cs) > 1 /\ primary # {}
            THEN CHOOSE c \in primary : TRUE
            ELSE IF sorted = <<>> THEN CHOOSE c \in authors : TRUE ELSE Head(sorted)

\* Edition.calculate_author: (author, sort_author), each the names sorted.
CalculateAuthor(cs, people) ==
    LET authors == AuthorContributors(cs)
        sort_names == SelectSeq(NameOrder, LAMBDA n : n \in authors)
        display(n) ==
            LET rows == {p \in people : p.id = n /\ p.display_name # None}
            IN IF rows = {} THEN DisplayFromSort(n)
               ELSE (CHOOSE p \in rows : TRUE).display_name
    IN [author |-> IF sort_names = <<>> THEN <<UNKNOWN_AUTHOR>>
                   ELSE [i \in 1..Len(sort_names) |-> display(sort_names[i])],
        sort_author |-> IF sort_names = <<>> THEN <<UNKNOWN_AUTHOR>>
                        ELSE sort_names]

\* Edition.calculate_permanent_work_id.
EditionPermanentWorkId(e, cs) ==
    LET first == FirstAuthor(cs)
        author == IF first # None THEN first
                  ELSE IF e.sort_author # <<>> THEN Head(e.sort_author)
                  ELSE IF e.author # <<>> THEN Head(e.author)
                  ELSE None
    IN IF e.fields["title"] = None THEN None
       ELSE IF e.fields["subtitle"] # None THEN "pwid-other"
       ELSE CalculatePermanentWorkIdForTitleAndAuthor(e.fields["title"], author, "book")

\* Edition.choose_cover: the image hyperlink of the identifier, if any.
ChooseCover(links) ==
    LET images == {h.href : h \in {x \in links : x.rel = IMAGE}}
    IN IF images = {} THEN None ELSE CHOOSE h \in images : TRUE

\* CoverageRecord keys: (data source, operation).
SET_EDITION_METADATA_OPERATION == "set-edition-metadata"
CHOOSE_COVER_OPERATION == "choose-cover"
CoverageKeys ==
    ({LICENSE_SOURCE, METADATA_SOURCE} \X {None})
        \cup ({LICENSE_SOURCE} \X {SET_EDITION_METADATA_OPERATION, CHOOSE_COVER_OPERATION})

\* CoverageRecord.add_for: stamp the record, with the clock when no
\* timestamp is given.
CoverageAddFor(cov, data_source, operation, timestamp, utcnow) ==
    [cov EXCEPT ![<<data_source, operation>>] =
        IF timestamp = NoTime THEN utcnow ELSE timestamp]

\* Edition.calculate_presentation(policy): returns the store and whether the
\* presentation changed.  The edition's data source is the license source.
CalculatePresentation(S, policy, utcnow) ==
    LET e == S.edition
        names == CalculateAuthor(S.contributions, S.contributors)
        e1 == IF policy.set_edition_metadata
              THEN [e EXCEPT !.author = names.author,
                             !.sort_author = names.sort_author,
                             !.fields["sort_title"] = SortTitleFor(e.fields["title"])]
              ELSE e
        e2 == IF policy.set_edition_metadata
              THEN [e1 EXCEPT !.fields["permanent_work_id"] =
                                  EditionPermanentWorkId(e1, S.contributions)]
              ELSE e1
        e3 == IF policy.choose_cover
              THEN [e2 EXCEPT !.cover = ChooseCover(S.hyperlinks)]
              ELSE e2
        cov1 == IF policy.set_edition_metadata
                THEN CoverageAddFor(S.coverage, LICENSE_SOURCE,
                                    SET_EDITION_METADATA_OPERATION, NoTime, utcnow)
                ELSE S.coverage
        cov2 == IF policy.choose_cover
                THEN CoverageAddFor(cov1, LICENSE_SOURCE,
                                    CHOOSE_COVER_OPERATION, NoTime, utcnow)
                ELSE cov1
    IN [store |-> [S EXCEPT !.edition = e3, !.coverage = cov2],
        changed |-> \/ e3.author # e.author
                    \/ e3.sort_author # e.sort_author
                    \/ e3.fields["sort_title"] # e.fields["sort_title"]
                    \/ e3.fields["permanent_work_id"] # e.fields["permanent_work_id"]
                    \/ e3.cover # e.cover]


(***************************************************************************)
(* Metadata.apply.                                                         *)
(***************************************************************************)
\* A variant of the identity guard that compares the identifier types only.
TypeMismatchOnly(md, edition_identifier) ==
    /\ md.primary_identifier # NoIdentifier
    /\ md.primary_identifier.type # edition_identifier.type

\* The identity guard: the record names a primary identifier that is not the
\* edition's.
IdentityMismatch(md, edition_identifier) ==
    /\ md.primary_identifier # NoIdentifier
    /\ \/ md.primary_identifier.type # edition_identifier.type
       \/ md.primary_identifier.identifier # edition_identifier.identifier

\* A variant of the staleness gate with a strict comparison.
NotApparentlyUpdatedStrict(md, replace, cov) ==
    /\ md.data_source_last_updated # NoTime
    /\ ~replace.even_if_not_apparently_updated
    /\ cov[<<md.data_source, None>>] # NoTime
    /\ cov[<<md.data_source, None>>] > md.data_source_last_updated

\* A variant without the staleness gate.
GateNeverCloses(md, replace, cov) == FALSE

\* The staleness gate: "if check_time >= last_time: return edition, False".
NotApparentlyUpdated(md, replace, cov) ==
    /\ md.data_source_last_updated # NoTime
    /\ ~replace.even_if_not_apparently_updated
    /\ cov[<<md.data_source, None>>] # NoTime
    /\ cov[<<md.data_source, None>>] >= md.data_source_last_updated

\* Python's truth test on a field value: None, the empty string and the
\* number 0 are false.  Numbers are written as their decimal strings.
Truthy(value) == value \notin {None, "", "0"}

\* A variant of the test that writes every non-empty value.
WritesWhenNonEmpty(new_metadata_value, old_edition_value) ==
    Truthy(new_metadata_value)

\* "if new_metadata_value and (new_metadata_value != old_edition_value)".
ShouldWrite(new_metadata_value, old_edition_value) ==
    Truthy(new_metadata_value) /\ new_metadata_value # old_edition_value

\* The loop over the scalar fields: a non-empty value that differs is written,
\* a sentinel clears the field.  written collects the setattr calls: field ->
\* value stored.
RECURSIVE ApplyFields(_, _, _, _, _)
ApplyFields(fields, md, names, changed, written) ==
    IF names = <<>>
    THEN [fields |-> fields, changed |-> changed, written |-> written]
    ELSE LET f == Head(names)
             new == md.fields[f]
             stored == IF new \in {NO_VALUE, NO_NUMBER} THEN None ELSE new
         IN IF ShouldWrite(new, fields[f])
            THEN ApplyFields([fields EXCEPT ![f] = stored], md, Tail(names), TRUE,
                             written @@ (f :> stored))
            ELSE ApplyFields(fields, md, Tail(names), changed, written)

\* ContributorData.display_name_to_sort_name: the sort name of a Contributor
\* row with this display name, None when there is none.
DisplayNameToSortName(people, display_name) ==
    LET rows == {p \in people : p.display_name = display_name /\ p.sort_name # None}
    IN IF rows = {} THEN None ELSE (CHOOSE p \in rows : TRUE).sort_name

\* ContributorData.find_sort_name without a metadata client: the contributor
\* with its sort name resolved, or an error when it has no name at all.
FindSortName(people, contributor_data) ==
    IF contributor_data.sort_name # None
    THEN [contributor |-> contributor_data, error |-> FALSE]
    ELSE IF contributor_data.display_name = None
    THEN [contributor |-> contributor_data, error |-> TRUE]
    ELSE [contributor |->
             [contributor_data EXCEPT
                 !.sort_name = DisplayNameToSortName(people, contributor_data.display_name)],
          error |-> FALSE]

\* The id of the Contributor row that Contributor.lookup finds or creates.
ContributorId(c) ==
    IF c.sort_name # None THEN c.sort_name
    ELSE IF c.lc # None THEN c.lc
    ELSE c.viaf

\* Edition.add_contributor and the field updates that follow it in
\* update_contributions: the row is found or created, a contribution is added
\* for each role, a supplied display name is stored.
AddContributor(S, c) ==
    LET id == ContributorId(c)
        old == {p \in S.contributors : p.id = id}
        display == IF c.display_name # None THEN c.display_name
                   ELSE IF old = {} THEN None
                   ELSE (CHOOSE p \in old : TRUE).display_name
    IN [S EXCEPT
          !.contributors = (@ \ old)
              \cup {[id |-> id, sort_name |-> c.sort_name, display_name |-> display]},
          !.contributions = @ \cup {[contributor |-> id, role |-> c.roles[i]] :
                                        i \in 1..Len(c.roles)}]

\* The loop of update_contributions over self.contributors.  ids collects
\* new_contributors.
RECURSIVE RegisterContributors(_, _, _)
RegisterContributors(S, cds, ids) ==
    IF cds = <<>> THEN [store |-> S, ids |-> ids, error |-> FALSE]
    ELSE LET found == FindSortName(S.contributors, Head(cds))
             c == found.contributor
         IN IF found.error THEN [store |-> S, ids |-> ids, error |-> TRUE]
            ELSE IF c.sort_name # None \/ c.lc # None \/ c.viaf # None
            THEN RegisterContributors(AddContributor(S, c), Tail(cds),
                                      Append(ids, ContributorId(c)))
            ELSE RegisterContributors(S, Tail(cds), ids)

\* sorted(old_contributors) != sorted(new_contributors): the two lists differ
\* as multisets.
SameMultiset(a, b) ==
    /\ Len(a) = Len(b)
    /\ \A x \in {a[i] : i \in 1..Len(a)} \cup {b[i] : i \in 1..Len(b)} :
          Cardinality({i \in 1..Len(a) : a[i] = x})
              = Cardinality({i \in 1..Len(b) : b[i] = x})

\* A set as a sequence, in some order.
RECURSIVE SetToSeq(_)
SetToSeq(set) ==
    IF set = {} THEN <<>>
    ELSE LET x == CHOOSE y \in set : TRUE
         IN <<x>> \o SetToSeq(set \ {x})

\* Variants of the test: one clears the old contributions on every merge that
\* brings contributors, one on every merge under the replace policy.
ClearsOnEveryMerge(replace, contributor_list) == contributor_list # <<>>
ClearsOnEveryReplace(replace, contributor_list) == replace

\* "if replace and self.contributors": the old contributions are removed when
\* a new set is about to be added.
ClearsOldContributions(replace, contributor_list) ==
    replace /\ contributor_list # <<>>

\* Metadata.update_contributions(_db, edition, metadata_client, replace).
UpdateContributions(S, md, replace) ==
    LET clear == ClearsOldContributions(replace, md.contributors)
        old_contributors ==
            IF clear
            THEN [i \in 1..Cardinality(S.contributions) |->
                     SetToSeq(S.contributions)[i].contributor]
            ELSE <<>>
        S1 == IF clear THEN [S EXCEPT !.contributions = {}] ELSE S
        reg == RegisterContributors(S1, md.contributors, <<>>)
    IN [store |-> reg.store,
        error |-> reg.error,
        changed |-> \/ (~replace /\ md.contributors # <<>>)
                    \/ ~SameMultiset(old_contributors, reg.ids),
        new_contributors |-> reg.ids]

\* Identifier.equivalent_to for every identifier of the record that is not
\* the edition's own.
AddEquivalencies(S, md, edition_identifier) ==
    LET others == {i \in 1..Len(md.identifiers) :
                      /\ md.identifiers[i].identifier # None
                      /\ ~(/\ md.identifiers[i].identifier = edition_identifier.identifier
                           /\ md.identifiers[i].type = edition_identifier.type)}
        output(e) == <<e.data_source, e.type, e.identifier>>
        new == {[data_source |-> md.data_source,
                 type |-> md.identifiers[i].type,
                 identifier |-> md.identifiers[i].identifier,
                 weight |-> md.identifiers[i].weight] : i \in others}
    IN [S EXCEPT !.equivalencies =
           {e \in @ : \A n \in new : output(n) # output(e)} \cup new]

\* A Classification: its data source and the subject key with the weight.
ClassificationKey(c) == <<c.type, c.identifier, c.name, c.weight>>

\* Identifier.classify: find or create the classification of this source and
\* subject, and set its weight.
Classify(cls, data_source, subject) ==
    {c \in cls : ~(/\ c.data_source = data_source
                   /\ c.type = subject.type
                   /\ c.identifier = subject.identifier
                   /\ c.name = subject.name)}
        \cup {[data_source |-> data_source, type |-> subject.type,
               identifier |-> subject.identifier, name |-> subject.name,
               weight |-> subject.weight]}

RECURSIVE ClassifyAll(_, _, _)
ClassifyAll(cls, data_source, subjects) ==
    IF subjects = {} THEN cls
    ELSE LET subject == CHOOSE x \in subjects : TRUE
         IN ClassifyAll(Classify(cls, data_source, subject), data_source,
                        subjects \ {subject})

\* A variant of the deletion that does not look at the data source.
DeletesFromAnySource(cls, data_source, new_keys, replace_subjects) ==
    IF replace_subjects
    THEN {c \in cls : ClassificationKey(c) \notin new_keys}
    ELSE {}

\* The classifications the subjects step deletes: with policy.subjects, those
\* of this data source whose key is not among the new subjects.
DeletedClassifications(cls, data_source, new_keys, replace_subjects) ==
    IF replace_subjects
    THEN {c \in cls : c.data_source = data_source
                         /\ ClassificationKey(c) \notin new_keys}
    ELSE {}

\* new_subjects after the deletion loop: with policy.subjects the keys of the
\* surviving classifications of this source have been removed from it.
SubjectsToApply(cls, md, replace) ==
    LET new_subjects == {md.subjects[i] : i \in 1..Len(md.subjects)}
        new_keys == {SubjectKey(x) : x \in new_subjects}
        mine == {c \in cls : c.data_source = md.data_source}
        deleted == DeletedClassifications(cls, md.data_source, new_keys,
                                          replace.subjects)
        surviving_keys == IF replace.subjects
                          THEN {ClassificationKey(c) : c \in mine \ deleted}
                          ELSE {}
    IN [deleted |-> deleted,
        to_apply |-> {x \in new_subjects : SubjectKey(x) \notin surviving_keys}]

\* The subjects step of apply.
ApplySubjects(S, md, replace) ==
    LET step == SubjectsToApply(S.classifications, md, replace)
    IN [S EXCEPT !.classifications =
           ClassifyAll(@ \ step.deleted, md.data_source, step.to_apply)]

\* A variant of the links step that deletes nothing.
DeletesNoHyperlink(links, data_source, replace_links) == {}

\* The hyperlinks the links step deletes: with policy.links, every hyperlink
\* of this data source.
DeletedHyperlinks(links, data_source, replace_links) ==
    IF replace_links THEN {h \in links : h.data_source = data_source} ELSE {}

\* The links step of apply: with policy.links every hyperlink of this source
\* is deleted, then every link of the record is added.
ApplyLinks(S, md, replace) ==
    LET kept == S.hyperlinks \ DeletedHyperlinks(S.hyperlinks, md.data_source,
                                                 replace.links)
        added == {[rel |-> md.links[i].rel, href |-> md.links[i].href,
                   data_source |-> md.data_source] :
                      i \in {j \in 1..Len(md.links) : md.links[j].rel \in METADATA_ALLOWED}}
    IN [S EXCEPT !.hyperlinks = kept \cup added]

\* Identifier.add_measurement for every measurement of the record.
ApplyMeasurements(S, md) ==
    [S EXCEPT !.measurements =
        @ \o [i \in 1..Len(md.measurements) |->
                 [data_source |-> md.data_source,
                  quantity_measured |-> md.measurements[i].quantity_measured,
                  value |-> md.measurements[i].value]]]

\* The fallback author: without a sort_author the edition takes the names of
\* the record's primary author (the display name goes to display_author).
FallbackAuthor(S, md) ==
    LET primary_author == PrimaryAuthor(md)
        name(n) == IF n = None THEN <<>> ELSE <<n>>
        applies == S.edition.sort_author = <<>> /\ primary_author # NoContributor
    IN [store |-> IF applies
                  THEN [S EXCEPT !.edition.sort_author = name(primary_author.sort_name),
                                 !.edition.display_author =
                                     name(primary_author.display_name)]
                  ELSE S,
        changed |-> applies]

\* Metadata.make_thumbnail: a hyperlink for a thumbnail that is not the image.
MakeThumbnail(S, data_source, link) ==
    IF link.thumbnail = None \/ link.thumbnail = link.href THEN S
    ELSE [S EXCEPT !.hyperlinks =
             @ \cup {[rel |-> THUMBNAIL_IMAGE, href |-> link.thumbnail,
                      data_source |-> data_source]}]

\* The last loop of apply: mirror every link, or make its thumbnail.
RECURSIVE MirrorOrThumbnail(_, _, _, _, _)
MirrorOrThumbnail(S, md, links, replace, fetch) ==
    IF links = <<>> THEN S
    ELSE MirrorOrThumbnail(
            IF replace.mirror
            THEN MirrorLink(S, DOMAIN S.pools, "id1", Head(links),
                            LinkObj(Head(links).rel, "id1"), replace, fetch).store
            ELSE MakeThumbnail(S, md.data_source, Head(links)),
            md, Tail(links), replace, fetch)

\* Metadata.apply(edition, collection, replace=replace) on store S, without a
\* metadata client.  Returns the new store, how the call ended, the flag
\* made_core_changes and whether the call returned at the staleness gate.
MetadataApply(S, md, collection, replace, fetch, utcnow) ==
    IF IdentityMismatch(md, EditionIdentifier)
    THEN [store |-> S, status |-> "ValueError", changed |-> FALSE, gated |-> FALSE,
          written |-> <<>>]
    ELSE IF NotApparentlyUpdated(md, replace, S.coverage)
    THEN [store |-> S, status |-> "ok", changed |-> FALSE, gated |-> TRUE,
          written |-> <<>>]
    ELSE
      LET f == ApplyFields(S.edition.fields, md, EditionFields, FALSE, <<>>)
          S1 == [S EXCEPT !.edition.fields = f.fields]
          uc == UpdateContributions(S1, md, replace.contributions)
          S2 == AddEquivalencies(uc.store, md, EditionIdentifier)
          S3 == ApplySubjects(S2, md, replace)
          S4 == ApplyLinks(S3, md, replace)
          S5 == ApplyMeasurements(S4, md)
          pres == CalculatePresentation(S5, replace, utcnow)
          fb == FallbackAuthor(pres.store, md)
          capp == IF md.circulation # <<>>
                  THEN CirculationApply(fb.store, md.circulation[1], collection,
                                        replace, fetch)
                  ELSE [store |-> fb.store, status |-> "ok", changed |-> FALSE,
                        is_new |-> FALSE]
          S8 == MirrorOrThumbnail(capp.store, md, md.links, replace, fetch)
          S9 == [S8 EXCEPT !.coverage =
                    CoverageAddFor(@, md.data_source, None,
                                   md.data_source_last_updated, utcnow)]
      IN IF uc.error
         THEN [store |-> uc.store, status |-> "ValueError", changed |-> FALSE,
               gated |-> FALSE, written |-> <<>>]
         ELSE IF capp.status # "ok"
         THEN [store |-> capp.store, status |-> capp.status, changed |-> FALSE,
               gated |-> FALSE, written |-> <<>>]
         ELSE [store |-> S9, status |-> "ok",
               changed |-> f.changed \/ uc.changed \/ pres.changed \/ fb.changed,
               gated |-> FALSE, written |-> f.written,
               subjects |-> SubjectsToApply(S2.classifications, md, replace),
               unlinked |-> DeletedHyperlinks(S3.hyperlinks, md.data_source,
                                              replace.links)]


\* A variant that takes the first contributor with any author role.
FirstListedAuthor(md) ==
    LET authors == {i \in 1..Len(md.contributors) :
                       \E r \in AUTHOR_ROLES : InSeq(r, md.contributors[i].roles)}
    IN IF authors = {} THEN NoContributor
       ELSE md.contributors[CHOOSE x \in authors : \A y \in authors : x <= y]

\* The author that calculate_permanent_work_id works from: self.primary_author.
WorkIdAuthor(md) == PrimaryAuthor(md)

\* Metadata.calculate_permanent_work_id(_db, None): the id, None for the
\* "None, None" of a record without an author, and the record, which keeps
\* the id.
MetadataCalculatePermanentWorkId(md) ==
    LET primary_author == WorkIdAuthor(md)
        pwid == CalculatePermanentWorkIdForTitleAndAuthor(
                    md.fields["title"], primary_author.sort_name, "book")
    IN IF primary_author = NoContributor
       THEN [md |-> md, pwid |-> None, primary_author |-> NoContributor]
       ELSE [md |-> [md EXCEPT !.fields["permanent_work_id"] = pwid],
             pwid |-> pwid, primary_author |-> primary_author]


(***************************************************************************)
(* Metadata.guess_license_pools.  catalog is what the database holds: the  *)
(* Edition rows with the pools each one's license_pools returns, and the   *)
(* pools that are deliverable.  A confidence is written in hundredths.     *)
(***************************************************************************)
\* ilike: equal without regard to case.
Lower(title) ==
    CASE title = "Moby-Dick" -> "moby-dick"
      [] title = "MOBY-DICK" -> "moby-dick"
      [] OTHER -> title
ILike(value, pattern) == Lower(value) = Lower(pattern)

\* potentials.get(lp, 0).
Confidence(potentials, lp) ==
    IF lp \in DOMAIN potentials THEN potentials[lp] ELSE 0

\* A variant that records whatever the query finds.
AlwaysRecords(potentials, lp, confidence) == TRUE

\* "potentials.get(lp, 0) < confidence".
RaisesConfidence(potentials, lp, confidence) ==
    Confidence(potentials, lp) < confidence

\* The pools of the rows of a query.
PoolsOf(rows) == UNION {row.license_pools : row \in rows}

\* Metadata._run_query: every deliverable pool of the rows whose confidence
\* is below this one gets it; success when there was one.
RunQuery(rows, deliverable, potentials, confidence) ==
    LET raised == {lp \in PoolsOf(rows) :
                      lp \in deliverable /\ RaisesConfidence(potentials, lp, confidence)}
    IN [potentials |-> [lp \in DOMAIN potentials \cup raised |->
                           IF lp \in raised THEN confidence ELSE potentials[lp]],
        success |-> raised # {}]

\* One "if not success" step of the loop body: the query runs unless an
\* earlier one succeeded or its condition fails.  acc carries the potentials,
\* the queries that ran and the potentials after each of them.
TryQuery(acc, applies, rows, deliverable, confidence, contributor) ==
    IF acc.success \/ ~applies THEN acc
    ELSE LET r == RunQuery(rows, deliverable, acc.potentials, confidence)
         IN [acc EXCEPT !.potentials = r.potentials, !.success = r.success,
                        !.runs = @ \cup {[confidence |-> confidence,
                                          contributor |-> contributor,
                                          pools |-> PoolsOf(rows)]},
                        !.trace = Append(@, r.potentials)]

\* The body of the loop for one author: the five queries, tightest first.
GuessForContributor(catalog, md, pwid, contributor, acc) ==
    LET base == {row \in catalog.editions :
                    ILike(row.title, md.fields["title"]) /\ row.medium = BOOK_MEDIUM}
        by_work_id == {row \in base : row.permanent_work_id = pwid
                                       /\ row.license_pools # {}}
        by_sort_author == {row \in base : row.sort_author = contributor.sort_name}
        by_author == {row \in base : row.author = contributor.display_name}
        by_unknown == {row \in base : row.author = UNKNOWN_AUTHOR}
        d == catalog.deliverable
        q0 == [acc EXCEPT !.success = FALSE]
        q1 == TryQuery(q0, TRUE, by_work_id, d, 95, contributor)
        q2 == TryQuery(q1, contributor.sort_name # None, by_sort_author, d, 90, contributor)
        q3 == TryQuery(q2, contributor.display_name # None, by_author, d, 80, contributor)
        q4 == TryQuery(q3, TRUE, by_unknown, d, 45, contributor)
    IN TryQuery(q4, TRUE, base, d, 30, contributor)

\* The loop over self.contributors from the i-th on.  find_sort_name and
\* calculate_permanent_work_id write to the record, and find_sort_name raises
\* for an author without any name.
RECURSIVE GuessLoop(_, _, _, _)
GuessLoop(people, catalog, i, acc) ==
    IF i > Len(acc.md.contributors) THEN acc
    ELSE LET c == acc.md.contributors[i]
         IN IF ~\E x \in {AUTHOR_ROLE, PRIMARY_AUTHOR_ROLE} : InSeq(x, c.roles)
            THEN GuessLoop(people, catalog, i + 1, acc)
            ELSE LET found == FindSortName(people, c)
                     md1 == [acc.md EXCEPT !.contributors[i] = found.contributor]
                     pwid == CalculatePermanentWorkIdForTitleAndAuthor(
                                 md1.fields["title"], PrimaryAuthor(md1).sort_name, "book")
                     md2 == [md1 EXCEPT !.fields["permanent_work_id"] = pwid]
                 IN IF found.error THEN [acc EXCEPT !.status = "ValueError"]
                    ELSE GuessLoop(people, catalog, i + 1,
                            GuessForContributor(catalog, md2, pwid, found.contributor,
                                                [acc EXCEPT !.md = md2]))

\* Metadata.guess_license_pools(_db, metadata_client) without a client.
GuessLicensePools(people, md, catalog) ==
    GuessLoop(people, catalog, 1,
              [status |-> "ok", md |-> md, potentials |-> <<>>, success |-> FALSE,
               runs |-> {}, trace |-> <<>>])


(***************************************************************************)
(* Measurement (src/model/measurement.py).  A normalized value is written  *)
(* in hundredths, 25 for 0.25, and so is a value that arrives normalized;  *)
(* None is NoNumber.                                                       *)
(***************************************************************************)
NoNumber == NoCount
POPULARITY == "http://librarysimplified.org/terms/rel/popularity"
QUALITY == "http://librarysimplified.org/terms/rel/quality"
RATING == "http://schema.org/ratingValue"
DOWNLOADS == "https://schema.org/UserDownloads"
PAGE_COUNT == "https://schema.org/numberOfPages"
AMAZON == "Amazon"
CONTENT_CAFE == "Content Cafe"
GUTENBERG == "Gutenberg"
NOVELIST == "NoveList Select"
UNGLUE_IT == "unglue.it"
LIBRARY_STAFF == "Library staff"

OVERDRIVE_POPULARITY ==
    <<1, 1, 1, 2, 2, 2, 3, 3, 4, 4, 5, 5, 6, 6, 7, 7, 8, 9, 9, 10, 10, 11,
      12, 13, 14, 15, 15, 16, 18, 19, 20, 21, 22, 24, 25, 26, 28, 30, 31,
      33, 35, 37, 39, 41, 43, 46, 48, 51, 53, 56, 59, 63, 66, 70, 74, 78,
      82, 87, 92, 97, 102, 108, 115, 121, 128, 135, 142, 150, 159, 168,
      179, 190, 202, 216, 230, 245, 260, 277, 297, 319, 346, 372, 402, 436,
      478, 521, 575, 632, 702, 777, 861, 965, 1100, 1248, 1428, 1665, 2020,
      2560, 3535, 5805>>
AMAZON_POPULARITY ==
    <<14937330, 1974074, 1702163, 1553600, 1432635, 1327323, 1251089,
      1184878, 1131998, 1075720, 1024272, 978514, 937726, 898606, 868506,
      837523, 799879, 770211, 743194, 718052, 693932, 668030, 647121,
      627642, 609399, 591843, 575970, 559942, 540713, 524397, 511183,
      497576, 483884, 470850, 458438, 444475, 432528, 420088, 408785,
      398420, 387895, 377244, 366837, 355406, 344288, 333747, 324280,
      315002, 305918, 296420, 288522, 279185, 270824, 262801, 253865,
      246224, 238239, 230537, 222611, 215989, 208641, 202597, 195817,
      188939, 181095, 173967, 166058, 160032, 153526, 146706, 139981,
      133348, 126689, 119201, 112447, 106795, 101250, 96534, 91052, 85837,
      80619, 75292, 69957, 65075, 59901, 55616, 51624, 47598, 43645, 39403,
      35645, 31795, 27990, 24496, 20780, 17740, 14102, 10498, 7090, 3861>>
CONTENT_CAFE_POPULARITY ==
    <<0, 1, 1, 1, 1, 1, 1, 1, 1, 1, 1, 1, 1, 1, 1, 1, 1, 1, 1, 1, 1, 1, 1,
      1, 1, 1, 1, 1, 1, 1, 1, 1, 1, 1, 1, 1, 1, 1, 1, 1, 1, 1, 1, 1, 1, 1,
      1, 1, 2, 2, 2, 2, 2, 2, 2, 2, 2, 2, 2, 2, 2, 2, 2, 2, 2, 2, 2, 2, 3,
      3, 3, 3, 3, 3, 3, 3, 3, 4, 4, 4, 4, 4, 4, 5, 5, 5, 5, 6, 6, 7, 8, 9,
      10, 11, 14, 18, 25, 41, 125, 387>>
GUTENBERG_DOWNLOADS ==
    <<0, 1, 2, 3, 4, 5, 5, 6, 7, 7, 8, 8, 9, 9, 10, 10, 11, 12, 12, 12, 13,
      14, 14, 15, 15, 16, 16, 17, 18, 18, 19, 19, 20, 21, 21, 22, 23, 23,
      24, 25, 26, 27, 28, 28, 29, 30, 32, 33, 34, 35, 36, 37, 38, 40, 41,
      43, 45, 46, 48, 50, 52, 55, 57, 60, 62, 65, 69, 72, 76, 79, 83, 87,
      93, 99, 106, 114, 122, 130, 140, 152, 163, 179, 197, 220, 251, 281,
      317, 367, 432, 501, 597, 658, 718, 801, 939, 1065, 1286, 1668, 2291,
      4139>>

\* Measurement.POPULARITY_PERCENTILES, DOWNLOAD_PERCENTILES and RATING_SCALES.
POPULARITY_PERCENTILES ==
    (LICENSE_SOURCE :> OVERDRIVE_POPULARITY) @@ (AMAZON :> AMAZON_POPULARITY)
        @@ (CONTENT_CAFE :> CONTENT_CAFE_POPULARITY)
DOWNLOAD_PERCENTILES == (GUTENBERG :> GUTENBERG_DOWNLOADS)
RATING_SCALES ==
    (LICENSE_SOURCE :> <<1, 5>>) @@ (AMAZON :> <<1, 5>>) @@ (UNGLUE_IT :> <<1, 5>>)
        @@ (NOVELIST :> <<0, 5>>) @@ (LIBRARY_STAFF :> <<1, 5>>)

\* A Measurement row: what it measures, for which source, the value, and the
\* normalized value it has cached.
MeasurementRow(quantity_measured, data_source, value, weight, normalized_value) ==
    [quantity_measured |-> quantity_measured, data_source |-> data_source,
     value |-> value, weight |-> weight, normalized_value |-> normalized_value]

\* bisect.bisect_left(a, x): the halving search of the library, on positions
\* counted from 0.
RECURSIVE BisectLeft(_, _, _, _)
BisectLeft(a, x, lo, hi) ==
    IF lo >= hi THEN lo
    ELSE LET mid == (lo + hi) \div 2
         IN IF a[mid + 1] < x THEN BisectLeft(a, x, mid + 1, hi)
            ELSE BisectLeft(a, x, lo, mid)

\* "position = bisect.bisect_left(d, self.value)".
Position(d, value) == BisectLeft(d, value, 0, Len(d))

\* Python's truth test of a number that may be None.
NumberTruthy(n) == n # NoNumber /\ n # 0

\* Measurement.normalized_value: the value returned, which the row caches.
NormalizedValue(m) ==
    IF NumberTruthy(m.normalized_value) THEN m.normalized_value
    ELSE IF ~NumberTruthy(m.value) THEN NoNumber
    ELSE IF /\ m.quantity_measured = POPULARITY
            /\ m.data_source \in DOMAIN POPULARITY_PERCENTILES
         THEN Position(POPULARITY_PERCENTILES[m.data_source], m.value)
    ELSE IF /\ m.quantity_measured = DOWNLOADS
            /\ m.data_source \in DOMAIN DOWNLOAD_PERCENTILES
         THEN Position(DOWNLOAD_PERCENTILES[m.data_source], m.value)
    ELSE IF /\ m.quantity_measured = RATING
            /\ m.data_source \in DOMAIN RATING_SCALES
         THEN LET scale == RATING_SCALES[m.data_source]
              IN ((m.value - scale[1]) * 100) \div (scale[2] - scale[1])
    ELSE IF m.data_source = METADATA_SOURCE THEN m.value
    ELSE m.normalized_value


\* A number that need not be whole: a fraction of whole numbers, and None as
\* the fraction without a denominator.
Fraction(num, den) == [num |-> num, den |-> den]
NoFraction == Fraction(0, 0)
SameNumber(a, b) ==
    IF a = NoFraction \/ b = NoFraction THEN a = b
    ELSE a.num * b.den = b.num * a.den
Plus(a, b) == Fraction(a.num * b.den + b.num * a.den, a.den * b.den)
\* x * weight for a weight in tenths, and x / 2.
Weighted(a, tenths) == Fraction(a.num * tenths, a.den * 10)
Half(a) == Fraction(a.num, a.den * 2)

\* "num_measurements += m.weight" and "measurement_total += (v * m.weight)"
\* over measurements that normalize.
RECURSIVE TotalWeight(_)
TotalWeight(ms) ==
    IF ms = <<>> THEN 0 ELSE Head(ms).weight + TotalWeight(Tail(ms))
RECURSIVE TotalValue(_)
TotalValue(ms) ==
    IF ms = <<>> THEN 0
    ELSE NormalizedValue(Head(ms)) * Head(ms).weight + TotalValue(Tail(ms))

\* Measurement._average_normalized_value: the mean by weight of the
\* measurements that normalize, None when their weights add up to nothing.
AverageNormalizedValue(ms) ==
    LET counted == SelectSeq(ms, LAMBDA m : NormalizedValue(m) # NoNumber)
        num_measurements == TotalWeight(counted)
        measurement_total == TotalValue(counted)
    IN IF num_measurements # 0
       THEN Fraction(measurement_total, num_measurements)
       ELSE NoFraction

\* "if quality:".
QualityCounts(quality) == quality # NoFraction /\ quality.num # 0

\* Measurement.overall_quality(measurements, popularity_weight, rating_weight,
\* default_value), the weights in tenths and the default in hundredths.
OverallQuality(ms, popularity_weight, rating_weight, default_value) ==
    LET popularity == AverageNormalizedValue(
            SelectSeq(ms, LAMBDA m : m.quantity_measured \in {POPULARITY, DOWNLOADS}))
        rating == AverageNormalizedValue(
            SelectSeq(ms, LAMBDA m : m.quantity_measured = RATING))
        quality == AverageNormalizedValue(
            SelectSeq(ms, LAMBDA m : m.quantity_measured = QUALITY))
        none(x) == x = NoFraction
        blend == IF none(popularity) THEN rating
                 ELSE IF none(rating) THEN popularity
                 ELSE Plus(Weighted(popularity, popularity_weight),
                           Weighted(rating, rating_weight))
        ok(value) == [status |-> "ok", value |-> value]
    IN IF popularity_weight + rating_weight # 10
       THEN [status |-> "ValueError", value |-> NoFraction]
       ELSE IF none(popularity) /\ none(rating) /\ none(quality)
       THEN ok(Fraction(default_value, 1))
       ELSE IF ~none(popularity) /\ none(rating) /\ none(quality) THEN ok(popularity)
       ELSE IF ~none(rating) /\ none(popularity) /\ none(quality) THEN ok(rating)
       ELSE IF ~none(quality) /\ none(rating) /\ none(popularity) THEN ok(quality)
       ELSE IF QualityCounts(quality) THEN ok(Plus(Half(blend), Half(quality)))
       ELSE ok(blend)


(***************************************************************************)
(* The state machine.                                                      *)
(***************************************************************************)
\* Measurements are a time series that only grows: the model stops at this many.
MaxMeasurements == 2

NoCall == [op |-> "none"]

Init ==
    /\ now = 1
    /\ pools = <<>>
    /\ lpdms = {}
    /\ loans = [l \in Loans |-> NoFulfillment]
    /\ hyperlinks = {}
    /\ events = [lib \in Libraries |-> 0]
    /\ mirrored = {}
    /\ edition = [fields |-> [f \in FieldNames |-> None],
                  author |-> <<>>, sort_author |-> <<>>, display_author |-> <<>>,
                  cover |-> None]
    /\ contributors = {}
    /\ contributions = {}
    /\ equivalencies = {}
    /\ classifications = {}
    /\ measurements = <<>>
    /\ coverage = [k \in CoverageKeys |-> NoTime]
    /\ circ = <<>>
    /\ metadata = <<>>
    /\ ret = NoCall
    /\ stamped = [d \in {LICENSE_SOURCE, METADATA_SOURCE} |-> NoTime]

\* The store after a handler.
SetStore(S) ==
    /\ pools' = S.pools
    /\ lpdms' = S.lpdms
    /\ loans' = S.loans
    /\ hyperlinks' = S.hyperlinks
    /\ events' = S.events
    /\ mirrored' = S.mirrored
    /\ edition' = S.edition
    /\ contributors' = S.contributors
    /\ contributions' = S.contributions
    /\ equivalencies' = S.equivalencies
    /\ classifications' = S.classifications
    /\ measurements' = S.measurements
    /\ coverage' = S.coverage

\* Time passes.
Tick ==
    /\ now < MaxTime
    /\ now' = now + 1
    /\ ret' = NoCall
    /\ UNCHANGED <<circVars, metaVars, circ, metadata, stamped>>

\* A patron's loan is fulfilled through one of the delivery mechanisms.
FulfillLoan(loan, m) ==
    /\ m \in lpdms
    /\ loans[loan] # MechanismKey(m)
    /\ loans' = [loans EXCEPT ![loan] = MechanismKey(m)]
    /\ ret' = NoCall
    /\ UNCHANGED <<now, pools, lpdms, hyperlinks, events, mirrored, metaVars,
                   circ, metadata, stamped>>

\* CirculationData(...): an ingester builds a record.
NewCirculationData(args) ==
    /\ circ' = <<[args |-> args, rec |-> CirculationData(args, now)]>>
    /\ ret' = NoCall
    /\ UNCHANGED <<now, circVars, metaVars, metadata, stamped>>

\* circulation.apply(_db, collection, replace).
CirculationDataApply(collection, replace, fetch) ==
    /\ circ # <<>>
    /\ \E r \in {CirculationApply(Store, circ[1].rec, collection, replace, fetch)} :
          /\ SetStore(r.store)
          /\ ret' = [op |-> "CirculationData.apply", status |-> r.status,
                     changed |-> r.changed, is_new |-> r.is_new,
                     collection |-> collection, replace |-> replace,
                     \* the call before was the same call and returned
                     repeats |-> /\ ret.op = "CirculationData.apply"
                                 /\ ret.status = "ok"
                                 /\ ret.collection = collection
                                 /\ ret.replace = replace,
                     \* the loans the call logged as losing their format
                     log |-> {l \in Loans : r.store.loans[l] # loans[l]},
                     \* what the call fetched and what it uploaded
                     fetch |-> fetch,
                     fetches |-> r.store.fetches, uploads |-> r.store.uploads]
    /\ UNCHANGED <<now, circ, metadata, stamped>>

\* Two records built and applied one after the other:
\* CirculationData(first).apply(_db, collection, replace), then
\* CirculationData(second).apply(_db, collection, replace).
ApplyInTurn(first, second, collection, replace) ==
    /\ \E r1 \in {CirculationApply(Store, CirculationData(first, now), collection,
                                   replace, NoFetch)} :
       \E r2 \in {CirculationApply(r1.store, CirculationData(second, now), collection,
                                   replace, NoFetch)} :
          /\ SetStore(r2.store)
          /\ ret' = [op |-> "apply in turn",
                     status |-> <<r1.status, r2.status>>,
                     collection |-> collection,
                     first |-> CirculationData(first, now),
                     second |-> CirculationData(second, now),
                     \* the pools before the two calls
                     pools |-> pools]
    /\ UNCHANGED <<now, circ, metadata, stamped>>

\* Metadata(...): an ingester builds a record; its circulation, if any, is
\* built with it.
NewMetadata(args) ==
    /\ metadata' =
          <<[args |-> args,
             md |-> Metadata([args EXCEPT !.circulation =
                       [i \in 1..Len(args.circulation) |->
                           CirculationData(args.circulation[i], now)]])]>>
    /\ ret' = NoCall
    /\ UNCHANGED <<now, circVars, metaVars, circ, stamped>>

\* metadata.apply(edition, collection, replace=replace).
MetadataApplyCall(collection, replace, fetch) ==
    /\ metadata # <<>>
    /\ Len(measurements) + Len(metadata[1].md.measurements) <= MaxMeasurements
    /\ \E r \in {MetadataApply(Store, metadata[1].md, collection, replace, fetch, now)} :
       LET md == metadata[1].md
           done == r.status = "ok" /\ ~r.gated
       IN /\ SetStore(r.store)
          /\ ret' = [op |-> "Metadata.apply", status |-> r.status,
                     changed |-> r.changed, gated |-> r.gated,
                     collection |-> collection, replace |-> replace,
                     \* the fields the call set on the edition
                     written |-> r.written,
                     \* the classifications the call deleted and the
                     \* subjects it handed to identifier.classify
                     subjects |-> IF done THEN r.subjects
                                  ELSE [deleted |-> {}, to_apply |-> {}],
                     \* the hyperlinks the links step deleted
                     unlinked |-> IF done THEN r.unlinked ELSE {},
                     \* what the call fetched and what it uploaded
                     fetch |-> fetch,
                     fetches |-> r.store.fetches, uploads |-> r.store.uploads]
          /\ stamped' = IF /\ done
                           /\ md.data_source_last_updated > stamped[md.data_source]
                        THEN [stamped EXCEPT ![md.data_source] =
                                 md.data_source_last_updated]
                        ELSE stamped
    /\ UNCHANGED <<now, circ, metadata>>

\* circulation.links = arg_links: the setter runs on the record in hand, with
\* the formats the record has by now.  args.links keeps what was last supplied.
SetCirculationLinks(arg_links) ==
    /\ circ # <<>>
    /\ \E set \in {CirculationLinksSetter(arg_links, ResetLinks(circ[1].rec.links),
                                           circ[1].rec.formats,
                                           circ[1].rec.default_rights_uri)} :
          circ' = <<[args |-> [circ[1].args EXCEPT !.links = arg_links],
                     rec |-> [circ[1].rec EXCEPT !.links = set.links,
                                                 !.formats = set.formats]]>>
    /\ ret' = [op |-> "CirculationData.links"]
    /\ UNCHANGED <<now, circVars, metaVars, metadata, stamped>>

\* metadata.links = arg_links.
SetMetadataLinks(arg_links) ==
    /\ metadata # <<>>
    /\ metadata' =
          <<[args |-> [metadata[1].args EXCEPT !.links = arg_links],
             md |-> [metadata[1].md EXCEPT
                       !.links = ResetLinks(@) \o MetadataLinksSetter(arg_links)]]>>
    /\ ret' = [op |-> "Metadata.links"]
    /\ UNCHANGED <<now, circVars, metaVars, circ, stamped>>

\* mirror_link(model_object, data_source, link, link_obj, policy), called on
\* its own: model_object is None, the edition, or the pool of a collection.
MirrorLinkCall(model_object, link, link_obj, fetch) ==
    /\ model_object \in Collections => model_object \in DOMAIN pools
    /\ LET owner_pools == IF model_object = "edition" THEN DOMAIN pools
                          ELSE IF model_object = None THEN {}
                          ELSE {model_object}
           identifier == IF model_object = None THEN None ELSE "id1"
       IN \E r \in {MirrorLink(Store, owner_pools, identifier, link, link_obj,
                               [ReplacementPolicy EXCEPT !.mirror = TRUE], fetch)} :
             /\ SetStore(r.store)
             /\ ret' = [op |-> "mirror_link", status |-> "ok",
                        model_object |-> model_object, identifier |-> identifier,
                        link |-> link, link_obj |-> link_obj, fetch |-> fetch,
                        fetches |-> r.store.fetches, uploads |-> r.store.uploads]
    /\ UNCHANGED <<now, circ, metadata, stamped>>

\* metadata.guess_license_pools(_db, None) against a catalog.
GuessLicensePoolsCall(catalog) ==
    /\ metadata # <<>>
    /\ \E r \in {GuessLicensePools(contributors, metadata[1].md, catalog)} :
          /\ metadata' = <<[metadata[1] EXCEPT !.md = r.md]>>
          /\ ret' = [op |-> "guess_license_pools", status |-> r.status,
                     catalog |-> catalog,
                     potentials |-> IF r.status = "ok" THEN r.potentials ELSE <<>>,
                     \* the queries that ran and the potentials after each
                     runs |-> r.runs, trace |-> r.trace]
    /\ UNCHANGED <<now, circVars, metaVars, circ, stamped>>

\* metadata.calculate_permanent_work_id(_db, None).
CalculatePermanentWorkIdCall ==
    /\ metadata # <<>>
    /\ \E r \in {MetadataCalculatePermanentWorkId(metadata[1].md)} :
          /\ metadata' = <<[metadata[1] EXCEPT !.md = r.md]>>
          /\ ret' = [op |-> "calculate_permanent_work_id", pwid |-> r.pwid,
                     primary_author |-> r.primary_author,
                     \* the id the record held before the call
                     old |-> metadata[1].md.fields["permanent_work_id"]]
    /\ UNCHANGED <<now, circVars, metaVars, circ, stamped>>

\* measurement.normalized_value, read on a Measurement row.
NormalizedValueCall(m) ==
    /\ ret' = [op |-> "normalized_value", measurement |-> m,
               value |-> NormalizedValue(m)]
    /\ UNCHANGED <<now, circVars, metaVars, circ, metadata, stamped>>

\* Measurement.overall_quality(measurements, popularity_weight, rating_weight,
\* default_value).
OverallQualityCall(ms, popularity_weight, rating_weight, default_value) ==
    /\ \E r \in {OverallQuality(ms, popularity_weight, rating_weight, default_value)} :
          ret' = [op |-> "overall_quality", status |-> r.status, value |-> r.value,
                  measurements |-> ms, popularity_weight |-> popularity_weight,
                  rating_weight |-> rating_weight, default_value |-> default_value]
    /\ UNCHANGED <<now, circVars, metaVars, circ, metadata, stamped>>

\* contributor_data.apply(destination) on a Contributor the caller holds.
ContributorDataApplyCall(self, destination) ==
    /\ \E r \in {ContributorDataApply(self, destination)} :
          ret' = [op |-> "ContributorData.apply", self |-> self,
                  destination |-> destination, result |-> r.destination,
                  made_changes |-> r.made_changes,
                  \* the call repeats the last one on its result
                  again |-> /\ ret.op = "ContributorData.apply"
                            /\ ret.self = self /\ ret.result = destination]
    /\ UNCHANGED <<now, circVars, metaVars, circ, metadata, stamped>>

\* The same record applied a second time to the Contributor it was applied to.
ContributorDataApplyAgain ==
    /\ ret.op = "ContributorData.apply"
    /\ ContributorDataApplyCall(ret.self, ret.result)

\* metadata.update_contributions(_db, edition, None, replace).  An exception
\* leaves what the call had done so far.
UpdateContributionsCall(replace) ==
    /\ metadata # <<>>
    /\ \E r \in {UpdateContributions(Store, metadata[1].md, replace)} :
          /\ SetStore(r.store)
          /\ ret' = [op |-> "update_contributions", replace |-> replace,
                     status |-> IF r.error THEN "ValueError" ELSE "ok",
                     changed |-> ~r.error /\ r.changed,
                     new_contributors |-> r.new_contributors,
                     \* the contributions and the people before the call
                     contributions |-> contributions, contributors |-> contributors]
    /\ UNCHANGED <<now, circ, metadata, stamped>>


(***************************************************************************)
(* What the callers supply: the records ingesters build, the policies and  *)
(* the answers of the HTTP and mirror collaborators.                       *)
(***************************************************************************)
CircArgs(counts, last_checked, links, formats) ==
    [data_source |-> LICENSE_SOURCE,
     licenses_owned |-> counts[1], licenses_available |-> counts[2],
     licenses_reserved |-> counts[3], patrons_in_hold_queue |-> counts[4],
     last_checked |-> last_checked, default_rights_uri |-> None,
     links |-> links, formats |-> formats]

\* No counts, copies only, or the hold queue only.
NoCounts == <<NoCount, NoCount, NoCount, NoCount>>
CountsMenu ==
    {NoCounts}
        \cup {<<v, v, NoCount, NoCount>> : v \in 0..MaxCount}
        \cup {<<NoCount, NoCount, v, v>> : v \in 0..MaxCount}

OA_LINK == LinkData(OPEN_ACCESS_DOWNLOAD, "http://oa/book.epub", EPUB, None)
DRM_FORMAT == FormatData(EPUB, ADOBE_DRM, NoLink, IN_COPYRIGHT)

CollectionArgs == Collections \cup {None}

\* Records that differ in their counts and last_checked, with or without an
\* open-access link.
AvailabilityArgs ==
    {CircArgs(counts, last_checked, links, <<>>) :
        counts \in CountsMenu, last_checked \in {NoTime} \cup Times,
        links \in {<<>>, <<OA_LINK>>}}

\* Records with all four counts and a last_checked, which may be ahead of
\* the clock here.
CountedArgs ==
    {CircArgs(<<v, v, v, v>>, last_checked, <<>>, <<>>) :
        v \in 0..MaxCount, last_checked \in 1..MaxTime + 1}

NextOrder ==
    \E first \in CountedArgs, second \in CountedArgs :
        ApplyInTurn(first, second, "c1", ReplacementPolicy)

SpecOrder == Init /\ [][NextOrder]_vars

NextAvailability ==
    \/ Tick
    \/ \E args \in AvailabilityArgs : NewCirculationData(args)
    \/ \E collection \in CollectionArgs :
          CirculationDataApply(collection, ReplacementPolicy, NoFetch)

SpecAvailability == Init /\ [][NextAvailability]_vars


\* Records that differ in their copies, last_checked, links and formats.
FormatsArgs ==
    {CircArgs(counts, last_checked, links, formats) :
        counts \in {NoCounts} \cup {<<v, v, NoCount, NoCount>> : v \in 0..MaxCount},
        last_checked \in Times,
        links \in {<<>>, <<OA_LINK>>},
        formats \in {<<>>, <<DRM_FORMAT>>}}

NextFormats ==
    \/ \E args \in FormatsArgs : NewCirculationData(args)
    \/ \E collection \in CollectionArgs, replace \in {ReplacementPolicy, FromLicenseSource} :
          CirculationDataApply(collection, replace, NoFetch)
    \/ \E loan \in Loans, m \in lpdms : FulfillLoan(loan, m)

SpecFormats == Init /\ [][NextFormats]_vars

\* Bibliographic records: two descriptions of the title.
NoFields == [f \in FieldNames |-> None]
IMAGE_LINK == LinkData(IMAGE, "http://img/cover.jpg", JPEG, None)
Description(variant) ==
    IF variant = 1
    THEN [fields |-> [NoFields EXCEPT !["title"] = "Moby-Dick", !["language"] = "en",
                                      !["medium"] = BOOK_MEDIUM],
          subjects |-> <<SubjectData("tag", " fiction ", None, 1)>>,
          contributors |-> <<ContributorData(MELVILLE, "Herman Melville", <<>>, None, None)>>,
          measurements |-> <<MeasurementData("popularity", 1, 1)>>,
          links |-> <<IMAGE_LINK>>]
    ELSE [fields |-> [NoFields EXCEPT !["title"] = "The Whale", !["medium"] = BOOK_MEDIUM],
          subjects |-> <<>>,
          contributors |-> <<ContributorData(HAWTHORNE, None, <<PRIMARY_AUTHOR_ROLE>>, None, None)>>,
          measurements |-> <<>>,
          links |-> <<>>]

MetadataArgs(data_source, variant, primary_identifier, updated, circulation) ==
    [data_source |-> data_source,
     fields |-> Description(variant).fields,
     primary_identifier |-> primary_identifier,
     identifiers |-> <<>>,
     subjects |-> Description(variant).subjects,
     contributors |-> Description(variant).contributors,
     measurements |-> Description(variant).measurements,
     links |-> Description(variant).links,
     circulation |-> circulation,
     data_source_last_updated |-> updated]

\* Identifiers that are not the edition's: another value, another type.
OtherValue == IdentifierData(OVERDRIVE_ID, "id2", 1)
OtherType == IdentifierData(ISBN, "id1", 1)
ForcedPolicy == [FromMetadataSource EXCEPT !.even_if_not_apparently_updated = TRUE]

\* Records of the metadata source with and without data_source_last_updated,
\* some of them naming no identifier or another one, and records of the
\* license source.
BibliographicArgs ==
    {MetadataArgs(METADATA_SOURCE, variant, EditionIdentifier, updated, <<>>) :
        variant \in 1..2, updated \in {NoTime} \cup Times}
      \cup {MetadataArgs(METADATA_SOURCE, 1, identifier, NoTime, <<>>) :
               identifier \in {NoIdentifier, OtherValue, OtherType}}
      \cup {MetadataArgs(LICENSE_SOURCE, 2, EditionIdentifier, updated, <<>>) :
               updated \in Times}

NextBibliographic ==
    \/ Tick
    \/ \E args \in BibliographicArgs : NewMetadata(args)
    \/ \E collection \in Collections,
          replace \in {ReplacementPolicy, FromMetadataSource, ForcedPolicy} :
          MetadataApplyCall(collection, replace, NoFetch)

SpecBibliographic == Init /\ [][NextBibliographic]_vars

\* Records that all carry data_source_last_updated, applied with and without
\* even_if_not_apparently_updated.  The sources date their records with
\* their own clocks, which may be ahead.
TimestampedArgs ==
    {MetadataArgs(data_source, variant, EditionIdentifier, updated, <<>>) :
        data_source \in {METADATA_SOURCE}, variant \in 1..2,
        updated \in 1..MaxTime + 1}

NextCoverage ==
    \/ \E args \in TimestampedArgs : NewMetadata(args)
    \/ \E replace \in {FromMetadataSource, ForcedPolicy} :
          MetadataApplyCall(None, replace, NoFetch)

SpecCoverage == Init /\ [][NextCoverage]_vars

\* The license source reports the formats it lends; the metadata source
\* sends descriptions that carry circulation data of the license source.
LicensedArgs ==
    {CircArgs(<<v, v, NoCount, NoCount>>, last_checked, <<>>, <<DRM_FORMAT>>) :
        v \in 0..MaxCount, last_checked \in Times}
DescribedArgs ==
    {MetadataArgs(METADATA_SOURCE, 2, EditionIdentifier, updated, circulation) :
        updated \in {NoTime} \cup Times,
        circulation \in {<<>>,
                         <<CircArgs(NoCounts, NoTime, <<OA_LINK>>, <<>>)>>,
                         <<CircArgs(NoCounts, NoTime, <<>>, <<DRM_FORMAT>>)>>}}

NextRights ==
    \/ \E args \in LicensedArgs : NewCirculationData(args)
    \/ \E collection \in Collections :
          CirculationDataApply(collection, FromLicenseSource, NoFetch)
    \/ \E args \in DescribedArgs : NewMetadata(args)
    \/ \E collection \in Collections :
          MetadataApplyCall(collection, FromMetadataSource, NoFetch)

SpecRights == Init /\ [][NextRights]_vars

\* Descriptions that differ in their scalar fields: a title, a sort title, a
\* series that may be the "no value" sentinel and a position in the series
\* that may be 0 or the "no number" sentinel.
FieldArgs ==
    {[MetadataArgs(METADATA_SOURCE, 2, EditionIdentifier, updated, <<>>)
         EXCEPT !.contributors = <<>>,
                !.fields = [NoFields EXCEPT !["title"] = title,
                                            !["sort_title"] = sort_title,
                                            !["series"] = series,
                                            !["series_position"] = series_position]] :
        title \in {None, "Moby-Dick", "The Whale"},
        sort_title \in {None, "Whale"},
        series \in {None, "Ishmael", NO_VALUE},
        series_position \in {None, "0", "1", NO_NUMBER},
        updated \in {NoTime, 1}}

NextFields ==
    \/ \E args \in FieldArgs : NewMetadata(args)
    \/ \E collection \in Collections, replace \in {ReplacementPolicy, ForcedPolicy} :
          MetadataApplyCall(collection, replace, NoFetch)

SpecFields == Init /\ [][NextFields]_vars

\* Descriptions that differ in their contributors: none, an author, a primary
\* author, both, an illustrator known by the display name only.
MELVILLE_DATA == ContributorData(MELVILLE, "Herman Melville", <<>>, None, None)
HAWTHORNE_DATA == ContributorData(HAWTHORNE, None, <<PRIMARY_AUTHOR_ROLE>>, None, None)
DISPLAY_ONLY_DATA == ContributorData(None, "Herman Melville", <<ILLUSTRATOR_ROLE>>, None, None)
ContributorArgs ==
    {[MetadataArgs(METADATA_SOURCE, 2, EditionIdentifier, NoTime, <<>>)
         EXCEPT !.contributors = contributor_list] :
        contributor_list \in {<<>>, <<MELVILLE_DATA>>, <<HAWTHORNE_DATA>>,
                              <<MELVILLE_DATA, HAWTHORNE_DATA>>,
                              <<DISPLAY_ONLY_DATA>>,
                              <<HAWTHORNE_DATA, DISPLAY_ONLY_DATA>>}}

NextContributors ==
    \/ Tick
    \/ \E args \in ContributorArgs : NewMetadata(args)
    \/ \E collection \in Collections, replace \in {AppendOnly, FromMetadataSource} :
          MetadataApplyCall(collection, replace, NoFetch)

SpecContributors == Init /\ [][NextContributors]_vars

\* Descriptions that differ in their subjects: a tag, the same tag twice (once
\* with white space around it), another tag, the tag under another weight.
FICTION == SubjectData("tag", "fiction", None, 1)
FICTION_SPACED == SubjectData("tag", " fiction ", None, 1)
FICTION_HEAVY == SubjectData("tag", "fiction", None, 100)
WHALES == SubjectData("tag", "whales", None, 1)
SubjectArgs ==
    {[MetadataArgs(data_source, 2, EditionIdentifier, NoTime, <<>>)
         EXCEPT !.subjects = subject_list] :
        data_source \in {METADATA_SOURCE, LICENSE_SOURCE},
        subject_list \in {<<>>, <<FICTION>>, <<FICTION, FICTION_SPACED>>,
                          <<WHALES>>, <<FICTION_HEAVY>>, <<FICTION_SPACED, WHALES>>}}

NextSubjects ==
    \/ \E args \in SubjectArgs : NewMetadata(args)
    \/ \E collection \in Collections, replace \in {AppendOnly, FromMetadataSource} :
          MetadataApplyCall(collection, replace, NoFetch)

SpecSubjects == Init /\ [][NextSubjects]_vars

\* Descriptions that differ in their links: a cover, a cover that declares a
\* thumbnail, a description; some carry circulation data of the license
\* source with an open-access link.
IMAGE_WITH_THUMBNAIL == [IMAGE_LINK EXCEPT !.thumbnail = "http://img/thumb.jpg"]
DESCRIPTION_LINK == LinkData(DESCRIPTION, "http://text/blurb", None, None)
HyperlinkArgs ==
    {[MetadataArgs(data_source, 2, EditionIdentifier, NoTime, circulation)
         EXCEPT !.links = links] :
        data_source \in {METADATA_SOURCE, LICENSE_SOURCE},
        links \in {<<>>, <<IMAGE_LINK>>, <<IMAGE_WITH_THUMBNAIL>>, <<DESCRIPTION_LINK>>},
        circulation \in {<<>>, <<CircArgs(NoCounts, NoTime, <<OA_LINK>>, <<>>)>>}}
MirroringPolicy == [FromMetadataSource EXCEPT !.mirror = TRUE]

NextHyperlinks ==
    \/ \E args \in HyperlinkArgs : NewMetadata(args)
    \/ \E collection \in Collections,
          replace \in {AppendOnly, FromMetadataSource, MirroringPolicy} :
          MetadataApplyCall(collection, replace, NoFetch)

SpecHyperlinks == Init /\ [][NextHyperlinks]_vars

\* The links ingesters hand over: an open-access download, one with inline
\* content instead of an href, a book in the public domain behind another
\* relation, and a cover image.
MaxLinks == 2
OA_INLINE == LinkData(OPEN_ACCESS_DOWNLOAD, None, EPUB, None)
PD_LINK == LinkData(DRM_ENCRYPTED_DOWNLOAD, "http://pd/book.epub", EPUB, PUBLIC_DOMAIN_USA)
ListsOf(set) == UNION {[1..n -> set] : n \in 0..MaxLinks}
CirculationLinkLists == ListsOf({OA_LINK, OA_INLINE, PD_LINK, IMAGE_LINK})
MetadataLinkLists == ListsOf({IMAGE_LINK, OA_LINK})

\* The formats a caller supplies with the links: none, one for the href of the
\* open-access link without rights, or two for that href.
SuppliedFormats ==
    {<<>>,
     <<FormatData(EPUB, ADOBE_DRM, OA_LINK, None)>>,
     <<FormatData(EPUB, NO_DRM, OA_LINK, IN_COPYRIGHT),
       FormatData(EPUB, ADOBE_DRM, OA_LINK, None)>>}

LinkedArgs ==
    {[CircArgs(NoCounts, 1, links, formats) EXCEPT !.default_rights_uri = default] :
        links \in {<<>>, <<OA_LINK>>, <<OA_INLINE>>, <<IMAGE_LINK, PD_LINK>>},
        formats \in SuppliedFormats,
        default \in {None, GENERIC_OPEN_ACCESS}}
IllustratedArgs ==
    {[MetadataArgs(METADATA_SOURCE, 2, EditionIdentifier, NoTime, <<>>)
         EXCEPT !.links = links] :
        links \in {<<>>, <<OA_LINK, IMAGE_LINK>>}}

NextLinks ==
    \/ \E args \in LinkedArgs : NewCirculationData(args)
    \/ \E arg_links \in CirculationLinkLists : SetCirculationLinks(arg_links)
    \/ \E args \in IllustratedArgs : NewMetadata(args)
    \/ \E arg_links \in MetadataLinkLists : SetMetadataLinks(arg_links)

SpecLinks == Init /\ [][NextLinks]_vars

\* Mirroring.  The links an ingester hands over: an open-access book, the
\* same book marked in copyright, a protected book, and a cover.  The answers
\* of the fetch and of the mirror: success, a fetch exception, not found, not
\* modified, a media type that is not mirrored, and a failed upload.
OA_RESERVED == LinkData(OPEN_ACCESS_DOWNLOAD, "http://oa/reserved.epub", EPUB, IN_COPYRIGHT)
MirroredLinks == {OA_LINK, IMAGE_LINK}
FetchException == FetchOutcome(TRUE, 200, TRUE, FALSE)
MirrorFetches ==
    {NoFetch, FetchException, FetchOutcome(FALSE, 404, TRUE, FALSE),
     FetchOutcome(FALSE, 304, TRUE, FALSE), FetchOutcome(FALSE, 200, FALSE, FALSE),
     FetchOutcome(FALSE, 200, TRUE, TRUE)}
MirroredArgs ==
    {CircArgs(NoCounts, 1, links, <<>>) :
        links \in {<<OA_LINK>>, <<OA_RESERVED>>, <<PD_LINK, OA_LINK>>}}
CoveredArgs ==
    {[MetadataArgs(METADATA_SOURCE, 2, EditionIdentifier, NoTime, <<>>)
         EXCEPT !.links = links] :
        links \in {<<IMAGE_LINK>>}}
MirroringLicenseSource == [FromLicenseSource EXCEPT !.mirror = TRUE]

NextMirror ==
    \/ \E args \in MirroredArgs : NewCirculationData(args)
    \/ \E collection \in CollectionArgs, fetch \in MirrorFetches :
          CirculationDataApply(collection, MirroringLicenseSource, fetch)
    \/ \E args \in CoveredArgs : NewMetadata(args)
    \/ \E fetch \in {NoFetch, FetchException} :
          MetadataApplyCall(None, MirroringPolicy, fetch)
    \/ \E model_object \in {None, "edition"} \cup Collections,
          link \in MirroredLinks, identifier \in {"id1", "id2"},
          fetch \in {NoFetch, FetchException} :
          MirrorLinkCall(model_object, link, LinkObj(link.rel, identifier), fetch)

SpecMirror == Init /\ [][NextMirror]_vars

\* Guessing.  The records name a title and its authors; the catalog holds two
\* editions, each with its own pool, that resemble the record in one way:
\* the work id, the sort name, the display name, the placeholder author, the
\* title alone, the title in another case, another medium, or nothing.
AUTHOR_ONLY_BY_DISPLAY == ContributorData(None, "Herman Melville", <<AUTHOR_ROLE>>, None, None)
ILLUSTRATOR_DATA == ContributorData(MELVILLE, "Herman Melville", <<ILLUSTRATOR_ROLE>>, None, None)
GuessArgs ==
    {[MetadataArgs(METADATA_SOURCE, 1, EditionIdentifier, NoTime, <<>>)
         EXCEPT !.contributors = contributor_list] :
        contributor_list \in {<<MELVILLE_DATA>>, <<HAWTHORNE_DATA, MELVILLE_DATA>>,
                              <<MELVILLE_DATA, HAWTHORNE_DATA>>,
                              <<AUTHOR_ONLY_BY_DISPLAY>>, <<ILLUSTRATOR_DATA>>}}
EditionRow(title, medium, permanent_work_id, sort_author, author, license_pools) ==
    [title |-> title, medium |-> medium, permanent_work_id |-> permanent_work_id,
     sort_author |-> sort_author, author |-> author, license_pools |-> license_pools]
RowsFor(lps) ==
    {EditionRow("Moby-Dick", BOOK_MEDIUM, "pwid-mobydick-melville", MELVILLE, "Herman Melville", lps),
     EditionRow("Moby-Dick", BOOK_MEDIUM, "pwid-other", MELVILLE, "H. Melville", lps),
     EditionRow("Moby-Dick", BOOK_MEDIUM, "pwid-other", "Melville, H.", "Herman Melville", lps),
     EditionRow("Moby-Dick", BOOK_MEDIUM, "pwid-other", UNKNOWN_AUTHOR, UNKNOWN_AUTHOR, lps),
     EditionRow("MOBY-DICK", BOOK_MEDIUM, "pwid-other", "Ishmael", "Ishmael", lps),
     EditionRow("Moby-Dick", "Audio", "pwid-mobydick-melville", MELVILLE, "Herman Melville", lps),
     EditionRow("The Whale", BOOK_MEDIUM, "pwid-mobydick-melville", MELVILLE, "Herman Melville", lps)}
Catalogs ==
    {[editions |-> {first, second}, deliverable |-> deliverable] :
        first \in RowsFor({"lp1"}), second \in RowsFor({"lp2"}),
        deliverable \in SUBSET {"lp1", "lp2"}}

NextGuess ==
    \/ \E args \in GuessArgs : NewMetadata(args)
    \/ \E catalog \in Catalogs : GuessLicensePoolsCall(catalog)

SpecGuess == Init /\ [][NextGuess]_vars

\* Work ids.  Records with up to two contributors, of any role, under three
\* titles, two of which differ in case and punctuation only.
MELVILLE_PRIMARY == ContributorData(MELVILLE, "Herman Melville", <<PRIMARY_AUTHOR_ROLE>>, None, None)
WorkIdContributors ==
    {MELVILLE_DATA, HAWTHORNE_DATA, MELVILLE_PRIMARY, AUTHOR_ONLY_BY_DISPLAY,
     ILLUSTRATOR_DATA}
WorkIdArgs ==
    {[MetadataArgs(METADATA_SOURCE, 2, EditionIdentifier, NoTime, <<>>)
         EXCEPT !.contributors = contributor_list, !.fields["title"] = title] :
        contributor_list \in UNION {[1..n -> WorkIdContributors] : n \in {0, 1, 2}},
        title \in {"Moby-Dick", "MOBY DICK", "The Whale"}}

NextWorkId ==
    \/ \E args \in WorkIdArgs : NewMetadata(args)
    \/ CalculatePermanentWorkIdCall

SpecWorkId == Init /\ [][NextWorkId]_vars

\* Normalizing.  Fresh measurements whose value is an entry of the table of
\* their source.
TableMeasurements ==
    {MeasurementRow(POPULARITY, source, POPULARITY_PERCENTILES[source][k], 1, NoNumber) :
        source \in DOMAIN POPULARITY_PERCENTILES, k \in 1..100}
      \cup {MeasurementRow(DOWNLOADS, source, DOWNLOAD_PERCENTILES[source][k], 1, NoNumber) :
                source \in DOMAIN DOWNLOAD_PERCENTILES, k \in 1..100}

NextNormalize == \E m \in TableMeasurements : NormalizedValueCall(m)

SpecNormalize == Init /\ [][NextNormalize]_vars

\* Scoring.  Measurements of every category: a popularity and a download
\* count with a table, a popularity without one, two ratings (one at the
\* bottom of its scale), a quality that arrives normalized, under two
\* weights, a quality whose row holds the normalized value 0, and a page
\* count.  The lists hold up to two of them, or one of each category.
OVERDRIVE_POPULAR == MeasurementRow(POPULARITY, LICENSE_SOURCE, 11, 1, NoNumber)
GUTENBERG_DOWNLOADED == MeasurementRow(DOWNLOADS, GUTENBERG, 50, 1, NoNumber)
UNSCALED_POPULAR == MeasurementRow(POPULARITY, NOVELIST, 7, 1, NoNumber)
AMAZON_RATED == MeasurementRow(RATING, AMAZON, 4, 1, NoNumber)
AMAZON_RATED_LOWEST == MeasurementRow(RATING, AMAZON, 1, 1, NoNumber)
WRANGLER_QUALITY == MeasurementRow(QUALITY, METADATA_SOURCE, 80, 1, NoNumber)
WRANGLER_QUALITY_HEAVY == MeasurementRow(QUALITY, METADATA_SOURCE, 20, 3, NoNumber)
STAFF_QUALITY_ZERO == MeasurementRow(QUALITY, LIBRARY_STAFF, 1, 1, 0)
PAGES == MeasurementRow(PAGE_COUNT, LICENSE_SOURCE, 300, 1, NoNumber)
ScoredMeasurements ==
    {OVERDRIVE_POPULAR, GUTENBERG_DOWNLOADED, UNSCALED_POPULAR, AMAZON_RATED,
     AMAZON_RATED_LOWEST, WRANGLER_QUALITY, WRANGLER_QUALITY_HEAVY,
     STAFF_QUALITY_ZERO, PAGES}
MeasurementLists ==
    UNION {[1..n -> ScoredMeasurements] : n \in {0, 1, 2}}
      \cup {<<OVERDRIVE_POPULAR, AMAZON_RATED, quality>> :
                quality \in {WRANGLER_QUALITY, WRANGLER_QUALITY_HEAVY, STAFF_QUALITY_ZERO}}
QualityWeights == {<<3, 7>>, <<5, 5>>, <<4, 4>>}

NextQuality ==
    \E ms \in MeasurementLists, weights \in QualityWeights, default_value \in {0, 10} :
        OverallQualityCall(ms, weights[1], weights[2], default_value)

SpecQuality == Init /\ [][NextQuality]_vars

\* Contributor merges on their own.  Contributors with one role and with
\* two, one known by a display name only, one known by a library id only and
\* one without any name or id.
MELVILLE_TWICE ==
    ContributorData(MELVILLE, "Herman Melville", <<AUTHOR_ROLE, ILLUSTRATOR_ROLE>>, None, None)
LC_ONLY == ContributorData(None, None, <<AUTHOR_ROLE>>, "n79006936", None)
NAMELESS == ContributorData(None, None, <<AUTHOR_ROLE>>, None, None)
MergeArgs ==
    {[MetadataArgs(METADATA_SOURCE, 2, EditionIdentifier, NoTime, <<>>)
         EXCEPT !.contributors = contributor_list] :
        contributor_list \in
            {<<>>, <<MELVILLE_DATA>>, <<HAWTHORNE_DATA>>, <<MELVILLE_TWICE>>,
             <<MELVILLE_DATA, HAWTHORNE_DATA>>, <<HAWTHORNE_DATA, MELVILLE_DATA>>,
             <<AUTHOR_ONLY_BY_DISPLAY>>, <<AUTHOR_ONLY_BY_DISPLAY, HAWTHORNE_DATA>>,
             <<LC_ONLY>>, <<NAMELESS, HAWTHORNE_DATA>>}}

\* ContributorData.apply on its own: what an ingester knows of a person and
\* the Contributor it is applied to.
BIRTH == [key |-> "birth", value |-> "1819"]
AppliedContributors ==
    {DescribedContributor(sort_name, display_name, lc, aliases, extra) :
        sort_name \in {None, MELVILLE}, display_name \in {None, "Herman Melville"},
        lc \in {None, "n79006936"}, aliases \in {<<>>, <<"Melville, H.">>},
        extra \in {{}, {BIRTH}}}
DestinationContributors ==
    {DescribedContributor(sort_name, display_name, None, aliases, extra) :
        sort_name \in {None, MELVILLE, "Melville, Herman, 1819-1891"},
        display_name \in {None, "H. Melville"},
        aliases \in {<<>>, <<"Melville, H.">>},
        extra \in {{}, {[key |-> "birth", value |-> "1820"]}}}

NextContributor ==
    \/ \E self \in AppliedContributors, destination \in DestinationContributors :
          ContributorDataApplyCall(self, destination)
    \/ ContributorDataApplyAgain

SpecContributor == Init /\ [][NextContributor]_vars

NextMerge ==
    \/ \E args \in MergeArgs : NewMetadata(args)
    \/ \E replace \in BOOLEAN : UpdateContributionsCall(replace)

SpecMerge == Init /\ [][NextMerge]_vars

(***************************************************************************)
(* Properties of the availability update.                                  *)
(***************************************************************************)
\* The step is a call of CirculationData.apply on the record in hand.
IsCirculationApply == ret'.op = "CirculationData.apply"
Rec == circ[1].rec
HasCounts(rec) == LicenseCounts(rec) # NoCounts
\* The record's counts are what the pool holds, count by count.
CountsApplied(rec, pool) ==
    \A i \in 1..4 : LicenseCounts(rec)[i] # NoCount
                        => LicenseCounts(pool)[i] = LicenseCounts(rec)[i]

\* C1: an apply whose last_checked is strictly older than the last_checked the
\* pool holds leaves the pool's four license counts as they were.
C1_MonotonicRejection ==
    [][(/\ IsCirculationApply
        /\ ret'.collection \in DOMAIN pools
        /\ Rec.last_checked < pools[ret'.collection].last_checked)
       => LicenseCounts(pools'[ret'.collection]) = LicenseCounts(pools[ret'.collection])]_vars

\* An apply of a stale record with other counts than the pool's has returned.
C1_Witness ==
    /\ ret.op = "CirculationData.apply" /\ ret.status = "ok"
    /\ ret.collection \in DOMAIN pools
    /\ Rec.last_checked < pools[ret.collection].last_checked
    /\ Rec.licenses_owned # NoCount
    /\ Rec.licenses_owned # pools[ret.collection].licenses_owned

\* C3: an apply without a collection of a record with any count raises
\* ValueError and leaves the whole store as it was.
C3_MissingCollectionFailsFast ==
    [][(/\ IsCirculationApply
        /\ ret'.collection = None
        /\ HasCounts(Rec))
       => /\ ret'.status = "ValueError"
          /\ UNCHANGED <<circVars, metaVars>>]_vars

\* Such a call has raised, for a record with a hold queue but no copies, on a
\* store that holds a pool.
C3_Witness ==
    /\ ret.op = "CirculationData.apply" /\ ret.status = "ValueError"
    /\ ret.collection = None
    /\ Rec.licenses_owned = NoCount /\ Rec.patrons_in_hold_queue # NoCount
    /\ pools # <<>>

\* C9 as the specification states it: a record built without last_checked
\* passes the staleness gate, so after its apply the pool holds its counts.
C9_AbsentLastCheckedIsFreshest ==
    [][(/\ IsCirculationApply
        /\ ret'.status = "ok"
        /\ ret'.collection # None
        /\ circ[1].args.last_checked = NoTime)
       => CountsApplied(Rec, pools'[ret'.collection])]_vars


\* The record of the last two calls with the later last_checked.
Later == IF ret.first.last_checked > ret.second.last_checked
         THEN ret.first ELSE ret.second
DistinctlyChecked ==
    /\ ret.op = "apply in turn"
    /\ ret.first.last_checked # ret.second.last_checked
    /\ \A i \in 1..4 : LicenseCounts(ret.first)[i] # NoCount
                           /\ LicenseCounts(ret.second)[i] # NoCount

\* C30 as the specification states it: two records with distinct
\* last_checked and all four counts, applied to a pool one after the other
\* in either order, leave the pool with the counts of the later one.
C30_LaterRecordWins ==
    DistinctlyChecked
        => LicenseCounts(pools[ret.collection]) = LicenseCounts(Later)

\* C30, amended: the same, for a pool that before the two calls holds no
\* last_checked later than both records'.
C30_LaterRecordWinsOnOlderPool ==
    (/\ DistinctlyChecked
     /\ ret.collection \in DOMAIN ret.pools
            => ret.pools[ret.collection].last_checked <= Later.last_checked)
        => /\ LicenseCounts(pools[ret.collection]) = LicenseCounts(Later)
           /\ pools[ret.collection].last_checked = Later.last_checked

\* The later record was applied first and the earlier one, with other
\* counts, second, to a pool that had been checked before.
C30_Witness ==
    /\ DistinctlyChecked
    /\ ret.first = Later
    /\ LicenseCounts(ret.first) # LicenseCounts(ret.second)
    /\ ret.collection \in DOMAIN ret.pools
    /\ ret.pools[ret.collection].last_checked # NoTime
    /\ ret.pools[ret.collection].last_checked <= Later.last_checked
    /\ LicenseCounts(ret.pools[ret.collection]) # LicenseCounts(Later)
    /\ LicenseCounts(pools[ret.collection]) = LicenseCounts(Later)


(***************************************************************************)
(* Properties of CirculationData.apply as a whole.                         *)
(***************************************************************************)
\* The previous call was an apply of the record in hand that returned, and
\* this step applies it again to the same collection.
AppliedAgain ==
    /\ ret.op = "CirculationData.apply" /\ ret.status = "ok"
    /\ IsCirculationApply
    /\ ret'.collection = ret.collection

SecondApplyChangesNothing ==
    /\ ret'.status = "ok"
    /\ ~ret'.changed
    /\ ret'.collection # None
          => LicenseCounts(pools'[ret'.collection]) = LicenseCounts(pools[ret'.collection])

\* C2 as the specification states it: the same record applied twice in a row
\* to the same collection returns changed=False the second time and leaves
\* the counts alone, whatever policy each call is given.
C2_IdempotentWhateverPolicy ==
    [][AppliedAgain => SecondApplyChangesNothing]_vars

\* C2, amended: the same record applied twice in a row to the same collection
\* under the same policy returns changed=False the second time and leaves the
\* pool's license counts as the first call left them.
C2_StalenessIdempotence ==
    [][(AppliedAgain /\ ret'.replace = ret.replace) => SecondApplyChangesNothing]_vars

\* The second of two such calls has returned False, for a record with
\* counts that the pool holds.
C2_Witness ==
    /\ ret.op = "CirculationData.apply" /\ ret.status = "ok"
    /\ ret.repeats
    /\ ~ret.changed
    /\ ret.collection # None
    /\ HasCounts(Rec)
    /\ Rec.last_checked = pools[ret.collection].last_checked
    /\ CountsApplied(Rec, pools[ret.collection])

\* C6: an apply sends one "distributor title added" event to each library of
\* the collection when it creates the pool under a policy with analytics, and
\* no event otherwise; so no library ever gets a second one.
C6_TitleAddOncePerLibrary ==
    /\ [][IsCirculationApply =>
            LET created == /\ ret'.collection \notin DOMAIN pools
                           /\ ret'.collection \in DOMAIN pools'
            IN \A lib \in Libraries :
                  events'[lib] = events[lib] +
                      (IF /\ created
                          /\ ret'.replace.analytics
                          /\ lib \in LibrariesOf(ret'.collection)
                       THEN 1 ELSE 0)]_vars
    /\ [](\A lib \in Libraries : events[lib] <= 1)

\* An apply with analytics on the pool an earlier apply created has returned,
\* and every library still has its one event.
C6_Witness ==
    /\ ret.op = "CirculationData.apply" /\ ret.status = "ok"
    /\ ret.collection # None /\ ~ret.is_new /\ ret.replace.analytics
    /\ \A lib \in Libraries : events[lib] = 1

MechanismKeys(ms) == {MechanismKey(m) : m \in ms}
\* The keys of the mechanisms the record's formats produce.
FormatKeys(rec) ==
    {[content_type |-> IF rec.formats[i].link # NoLink
                          /\ rec.formats[i].content_type = None
                       THEN rec.formats[i].link.media_type
                       ELSE rec.formats[i].content_type,
      drm_scheme |-> rec.formats[i].drm_scheme] : i \in 1..Len(rec.formats)}

\* C7: under policy.formats an apply to a collection deletes every mechanism
\* that existed before the call and that the record's formats do not produce,
\* and after the call every loan is unfulfilled or fulfilled through a
\* mechanism that exists.
C7_RemovedFormatsLeaveNoDanglingLoan ==
    [][(/\ IsCirculationApply
        /\ ret'.status = "ok"
        /\ ret'.collection # None
        /\ ret'.replace.formats)
       => /\ \A key \in MechanismKeys(lpdms) \ FormatKeys(Rec) :
                key \notin MechanismKeys(lpdms')
          /\ \A l \in Loans : \/ loans'[l] = NoFulfillment
                              \/ loans'[l] \in MechanismKeys(lpdms')]_vars

\* Such a call has cleared a loan.
C7_Witness ==
    /\ ret.op = "CirculationData.apply" /\ ret.status = "ok"
    /\ ret.replace.formats
    /\ ret.log # {}
    /\ \A l \in ret.log : loans[l] = NoFulfillment

\* C8: an apply returns changed=True exactly when the pool's license counts
\* differ after the call, or some pool of the identifier is open access before
\* the formats are processed and none is after, or the other way round.
C8_ChangedIffCountsOrOpenAccess ==
    [][(IsCirculationApply /\ ret'.status = "ok")
       => LET c == ret'.collection
              created == c # None /\ c \notin DOMAIN pools
              before == IF c \in DOMAIN pools THEN pools[c] ELSE NewLicensePool
              counts_changed ==
                  c # None /\ LicenseCounts(pools'[c]) # LicenseCounts(before)
              old_open_access ==
                  AnyOpenAccess(pools) \/ (created /\ HasOpenAccessLink(Rec))
              new_open_access == AnyOpenAccess(pools')
          IN ret'.changed <=> (counts_changed \/ old_open_access # new_open_access)]_vars

\* An apply of a record without counts has returned True: the open-access
\* status flipped.
C8_Witness ==
    /\ ret.op = "CirculationData.apply" /\ ret.status = "ok"
    /\ ret.changed
    /\ ~HasCounts(Rec)


(***************************************************************************)
(* Properties of Metadata.apply.                                           *)
(***************************************************************************)
IsMetadataApply == ret'.op = "Metadata.apply"
Md == metadata[1].md
\* The record names an identifier that differs from the edition's in its type
\* or in its value.
NamesAnotherIdentifier(md) ==
    /\ md.primary_identifier # NoIdentifier
    /\ <<md.primary_identifier.type, md.primary_identifier.identifier>>
          # <<EditionIdentifier.type, EditionIdentifier.identifier>>

\* C4: Metadata.apply of a record whose primary identifier differs from the
\* edition's in type or value raises ValueError and leaves the edition, its
\* contributions, classifications, links, measurements and coverage records,
\* and the rest of the store, as they were.
C4_IdentityGuard ==
    [][(IsMetadataApply /\ NamesAnotherIdentifier(Md))
       => /\ ret'.status = "ValueError"
          /\ UNCHANGED <<circVars, metaVars>>]_vars

\* Such a call has raised for a record with the edition's identifier type and
\* another value, whose title the edition does not have.
C4_Witness ==
    /\ ret.op = "Metadata.apply" /\ ret.status = "ValueError"
    /\ Md.primary_identifier.type = EditionIdentifier.type
    /\ Md.primary_identifier.identifier # EditionIdentifier.identifier
    /\ Md.fields["title"] # edition.fields["title"]

\* The call is not forced and the record, for this edition, carries a
\* data_source_last_updated that is no later than the time given.
NoNewerThan(time) ==
    /\ IsMetadataApply
    /\ ~NamesAnotherIdentifier(Md)
    /\ ~ret'.replace.even_if_not_apparently_updated
    /\ Md.data_source_last_updated # NoTime
    /\ time # NoTime
    /\ Md.data_source_last_updated <= time

ReturnsAtTheGate ==
    /\ ret'.status = "ok" /\ ret'.gated /\ ~ret'.changed
    /\ UNCHANGED <<circVars, metaVars>>

\* C5 as the specification states it: once an apply of the source with
\* data_source_last_updated = T has run to its coverage record, every later
\* unforced apply of the source with data_source_last_updated <= T returns
\* (edition, False) at the gate and changes nothing.
C5_GateAfterAnyCompletedApply ==
    [][NoNewerThan(stamped[Md.data_source]) => ReturnsAtTheGate]_vars

\* C5, amended: an unforced apply whose data_source_last_updated is no later
\* than the timestamp the coverage record of (edition, source) holds at the
\* call returns (edition, False) at the gate and changes nothing.
C5_StalenessGate ==
    [][NoNewerThan(coverage[<<Md.data_source, None>>]) => ReturnsAtTheGate]_vars

\* An apply has returned at the gate for a record whose title the edition
\* does not have.
C5_Witness ==
    /\ ret.op = "Metadata.apply" /\ ret.status = "ok" /\ ret.gated
    /\ Md.data_source_last_updated <= coverage[<<Md.data_source, None>>]
    /\ Md.fields["title"] # edition.fields["title"]


\* C29: a Metadata.apply without even_if_not_apparently_updated of a record
\* that carries data_source_last_updated never moves the timestamp of the
\* coverage record of (edition, source) back, for any source.
C29_CoverageNeverDecreases ==
    [][(/\ IsMetadataApply
        /\ ~ret'.replace.even_if_not_apparently_updated
        /\ Md.data_source_last_updated # NoTime)
        => \A k \in DOMAIN coverage : coverage'[k] >= coverage[k]]_vars

\* An unforced apply has moved the coverage record forward to its own
\* data_source_last_updated, which is older than that of an apply completed
\* before: a forced apply had moved the record back in between.
C29_Witness ==
    /\ ret.op = "Metadata.apply" /\ ret.status = "ok" /\ ~ret.gated
    /\ ~ret.replace.even_if_not_apparently_updated
    /\ coverage[<<Md.data_source, None>>] = Md.data_source_last_updated
    /\ Md.data_source_last_updated < stamped[Md.data_source]


\* C10 as the specification states it: Metadata.apply of a record of the
\* metadata source under the from_metadata_source policy, its nested
\* CirculationData included, leaves every delivery mechanism recorded for
\* the title in place with the rights it had, and leaves the open-access flag
\* of every pool as it was.
C10_MetadataSourceLeavesRightsAndFormats ==
    [][(/\ IsMetadataApply
        /\ ret'.replace = FromMetadataSource
        /\ Md.data_source = METADATA_SOURCE
        /\ pools # <<>>)
       => /\ lpdms \subseteq lpdms'
          /\ \A c \in DOMAIN pools : pools'[c].open_access = pools[c].open_access]_vars


(***************************************************************************)
(* Properties of the steps of Metadata.apply.                              *)
(***************************************************************************)
\* The call ran past the staleness gate and returned.
PassedTheGate == IsMetadataApply /\ ret'.status = "ok" /\ ~ret'.gated
\* The fields that Edition.calculate_presentation computes after the loop.
ComputedFields == {"sort_title", "permanent_work_id"}

C14_AppendOnlyKeepsContributions ==
    [][(IsMetadataApply /\ ~ret'.replace.contributions)
       => contributions \subseteq contributions']_vars

\* Such a call has added a contribution to an edition that had others.
C14_Witness ==
    /\ ret.op = "Metadata.apply" /\ ret.status = "ok" /\ ~ret.replace.contributions
    /\ Md.contributors = <<HAWTHORNE_DATA>>
    /\ [contributor |-> HAWTHORNE, role |-> PRIMARY_AUTHOR_ROLE] \in contributions
    /\ [contributor |-> MELVILLE, role |-> AUTHOR_ROLE] \in contributions
    /\ [contributor |-> MELVILLE, role |-> ILLUSTRATOR_ROLE] \in contributions

ClassifiedBy(cls, data_source) == {c \in cls : c.data_source = data_source}
IncomingKeys(md) == {SubjectKey(md.subjects[i]) : i \in 1..Len(md.subjects)}

LinkedBy(links, data_source) == {h \in links : h.data_source = data_source}
\* The hyperlinks that the links of a record stand for.
HyperlinksFor(links, data_source) ==
    {[rel |-> links[i].rel, href |-> links[i].href, data_source |-> data_source] :
        i \in 1..Len(links)}
\* The thumbnail hyperlinks that the links of a record declare.
ThumbnailsFor(links, data_source) ==
    {[rel |-> THUMBNAIL_IMAGE, href |-> links[i].thumbnail, data_source |-> data_source] :
        i \in {j \in 1..Len(links) :
                  links[j].thumbnail # None /\ links[j].thumbnail # links[j].href}}
\* The hyperlinks of the record's nested CirculationData, when it has the
\* record's data source.
NestedFor(md) ==
    UNION {HyperlinksFor(md.circulation[i].links, md.data_source) :
              i \in {j \in 1..Len(md.circulation) :
                        md.circulation[j].data_source = md.data_source}}
UnsetKeepsHyperlinks ==
    (IsMetadataApply /\ ~ret'.replace.links) => hyperlinks \subseteq hyperlinks'

\* C17 as the specification states it: after an apply with policy.links the
\* hyperlinks of the merging source are exactly the record's links, and no
\* hyperlink of another source was deleted; with policy.links unset no
\* hyperlink is deleted.
C17_LinksReplacedExactly ==
    [][/\ (PassedTheGate /\ ret'.replace.links)
          => /\ ret'.unlinked = LinkedBy(hyperlinks, Md.data_source)
             /\ LinkedBy(hyperlinks', Md.data_source)
                   = HyperlinksFor(Md.links, Md.data_source)
             /\ hyperlinks \ LinkedBy(hyperlinks, Md.data_source) \subseteq hyperlinks'
       /\ UnsetKeepsHyperlinks]_vars

\* C17, amended: after an apply with policy.links every hyperlink of the
\* merging source was deleted and the hyperlinks of the source are exactly the
\* record's links, the thumbnails those links declare when the policy does not
\* mirror, and the links of the record's nested CirculationData when it has
\* the same source; no hyperlink of another source was deleted; with
\* policy.links unset no hyperlink is deleted.
C17_LinksReplaced ==
    [][/\ (PassedTheGate /\ ret'.replace.links)
          => /\ ret'.unlinked = LinkedBy(hyperlinks, Md.data_source)
             /\ LinkedBy(hyperlinks', Md.data_source)
                   = HyperlinksFor(Md.links, Md.data_source)
                       \cup (IF ret'.replace.mirror THEN {}
                             ELSE ThumbnailsFor(Md.links, Md.data_source))
                       \cup NestedFor(Md)
             /\ hyperlinks \ LinkedBy(hyperlinks, Md.data_source) \subseteq hyperlinks'
       /\ UnsetKeepsHyperlinks]_vars

\* Such a call has deleted hyperlinks of the license source and left it with
\* the record's description and the open-access link of its circulation
\* data, beside the cover and thumbnail of the other source.
C17_Witness ==
    /\ ret.op = "Metadata.apply" /\ ret.status = "ok" /\ ret.replace.links
    /\ Md.data_source = LICENSE_SOURCE
    /\ Md.links = <<DESCRIPTION_LINK>>
    /\ \E h \in ret.unlinked : h.rel = IMAGE
    /\ Cardinality(LinkedBy(hyperlinks, LICENSE_SOURCE)) = 2
    /\ Cardinality(LinkedBy(hyperlinks, METADATA_SOURCE)) = 2


(***************************************************************************)
(* Properties of the links setters.                                        *)
(***************************************************************************)
\* The rights URI the setter reads for a link: its own, else the record's.
EffectiveRights(link, rec) ==
    IF link.rights_uri # None THEN link.rights_uri ELSE rec.default_rights_uri
\* The link is an open-access download, or a book under open-access rights.
ImpliesFormat(link, rec) ==
    \/ link.rel = OPEN_ACCESS_DOWNLOAD
    \/ /\ link.media_type \in BOOK_MEDIA_TYPES
       /\ EffectiveRights(link, rec) \in OPEN_ACCESS
\* The formats whose link has this href.
FormatsFor(formats, href) ==
    {i \in 1..Len(formats) : formats[i].link # NoLink /\ formats[i].link.href = href}
\* The formats the constructor was given; the setter appends behind them.
Supplied == circ[1].args.formats
DerivedUseNoDrm ==
    \A i \in (Len(Supplied) + 1)..Len(Rec.formats) : Rec.formats[i].drm_scheme = NO_DRM
SuppliedKeepRights ==
    \A i \in 1..Len(Supplied) :
        Supplied[i].rights_uri # None => Rec.formats[i].rights_uri = Supplied[i].rights_uri
\* An assignment to .links leaves every rights URI that a format has.
AssignmentKeepsRights ==
    (ret'.op = "CirculationData.links")
       => \A i \in 1..Len(Rec.formats) :
             Rec.formats[i].rights_uri # None
                => circ'[1].rec.formats[i].rights_uri = Rec.formats[i].rights_uri

\* C11 as the specification states it: every retained link that is an
\* open-access download, or a book whose effective rights are open access, has
\* exactly one format with its href; derived formats use NO_DRM and a format
\* that has a rights URI keeps it.
C11_OneFormatPerOpenAccessLink ==
    /\ [](circ # <<>> =>
            /\ \A i \in 1..Len(Rec.links) :
                  ImpliesFormat(Rec.links[i], Rec)
                     => Cardinality(FormatsFor(Rec.formats, Rec.links[i].href)) = 1
            /\ DerivedUseNoDrm
            /\ SuppliedKeepRights)
    /\ [][AssignmentKeepsRights]_vars

\* C11, amended: every retained link with an href that is an open-access
\* download, or a book whose effective rights are open access, has a format
\* with its href, and exactly one unless the caller supplied several for
\* that href; derived formats use NO_DRM and a format that has a rights URI
\* keeps it.
C11_OneFormatPerOpenAccessHref ==
    /\ [](circ # <<>> =>
            /\ \A i \in 1..Len(Rec.links) :
                  (ImpliesFormat(Rec.links[i], Rec) /\ Rec.links[i].href # None)
                     => LET href == Rec.links[i].href
                        IN /\ FormatsFor(Rec.formats, href) # {}
                           /\ Cardinality(FormatsFor(Supplied, href)) <= 1
                                 => Cardinality(FormatsFor(Rec.formats, href)) = 1
            /\ DerivedUseNoDrm
            /\ SuppliedKeepRights)
    /\ [][AssignmentKeepsRights]_vars

\* After an assignment the record holds the open-access link twice and a book
\* in the public domain, with one derived format for each href.
C11_Witness ==
    /\ ret.op = "CirculationData.links"
    /\ Supplied = <<>>
    /\ Rec.links = <<OA_LINK, OA_LINK>>
    /\ Len(Rec.formats) = 2
    /\ FormatsFor(Rec.formats, PD_LINK.href) = {1}
    /\ FormatsFor(Rec.formats, OA_LINK.href) = {2}
    /\ Rec.formats[2].rights_uri = GENERIC_OPEN_ACCESS

\* The links of arg_links whose relation is allowed, in input order.
RECURSIVE Relevant(_, _)
Relevant(arg_links, allowed) ==
    IF arg_links = <<>> THEN <<>>
    ELSE LET n == Len(arg_links)
             front == Relevant(SubSeq(arg_links, 1, n - 1), allowed)
         IN IF arg_links[n].rel \in allowed THEN Append(front, arg_links[n])
            ELSE front

\* C12: the links of a CirculationData are the circulation-relevant links of
\* the list last supplied to it, in input order, and the links of a Metadata
\* the metadata-relevant ones; nothing of an earlier list remains.
C12_LinkFiltering ==
    /\ circ # <<>> => Rec.links = Relevant(circ[1].args.links, CIRCULATION_ALLOWED)
    /\ metadata # <<>> => Md.links = Relevant(metadata[1].args.links, METADATA_ALLOWED)

\* Both objects were built with links and have been assigned a mixed list
\* since, of which each kept its own link.
C12_Witness ==
    /\ ret.op = "Metadata.links"
    /\ circ # <<>> /\ metadata # <<>>
    /\ circ[1].args.links = <<IMAGE_LINK, OA_LINK>> /\ Rec.links = <<OA_LINK>>
    /\ Rec.formats # <<>> /\ Rec.formats[1].link = PD_LINK
    /\ metadata[1].args.links = <<OA_LINK, IMAGE_LINK>> /\ Md.links = <<IMAGE_LINK>>


(***************************************************************************)
(* Properties of mirror_link.                                              *)
(***************************************************************************)
MirrorOps == {"CirculationData.apply", "Metadata.apply", "mirror_link"}

\* The pools that the fetches of the last call were made for, for its
\* open-access links.
OpenAccessOwners ==
    UNION {f.pools : f \in {g \in ret.fetches : g.link.rel = OPEN_ACCESS_DOWNLOAD}}

SuppressedPools(ps) == {c \in DOMAIN ps : ps[c].suppressed}

\* C18: a call whose fetch ends with a fetch exception uploads nothing and
\* returns normally; every pool of an open-access link it fetched is
\* suppressed with a reason recorded, and no other pool becomes suppressed.
C18_FetchExceptionSuppresses ==
    [][(ret'.op \in MirrorOps /\ ret'.fetch.fetch_exception)
        => /\ ret'.uploads = {}
           /\ mirrored' = mirrored
           /\ ret'.status = "ok"
           /\ \A f \in ret'.fetches :
                 f.link.rel = OPEN_ACCESS_DOWNLOAD
                    => \A c \in f.pools :
                          /\ pools'[c].suppressed
                          /\ pools'[c].license_exception # None
           /\ LET owners == UNION {f.pools : f \in {g \in ret'.fetches :
                                         g.link.rel = OPEN_ACCESS_DOWNLOAD}}
              IN \A c \in SuppressedPools(pools') \ owners :
                    c \in SuppressedPools(pools)]_vars

\* A failed fetch of an open-access link has suppressed the pool, and a failed
\* fetch of a cover has left a pool alone.
C18_Witness ==
    /\ ret.op \in MirrorOps /\ ret.fetch.fetch_exception
    /\ ret.fetches # {}
    /\ \/ /\ ret.op = "CirculationData.apply"
          /\ OpenAccessOwners # {}
          /\ \A c \in OpenAccessOwners : pools[c].suppressed
       \/ /\ OpenAccessOwners = {}
          /\ \E f \in ret.fetches : f.pools # {} /\ SuppressedPools(pools) = {}

\* The conditions under which mirror_link goes on to the mirror.
MayFetch(link, link_obj, identifier) ==
    /\ link_obj.rel \in MIRRORED
    /\ link.rights_uri # IN_COPYRIGHT
    /\ identifier # None
    /\ identifier = link_obj.identifier

MayUpload(fetch, was_mirrored) ==
    /\ ~fetch.fetch_exception
    /\ ~(fetch.status_code = 304 /\ was_mirrored)
    /\ fetch.status_code \in 200..399
    /\ fetch.mirrorable

\* C19: every upload of a call is of a link with a mirrored relation, not in
\* copyright, whose owner has the identifier of the persisted link, fetched
\* without exception, not a 304 for a mirrored representation, with a 2xx or
\* 3xx status and a mirrorable media type; and a link that fails one of the
\* first three is never fetched.
C19_UploadOnlyWhenEligible ==
    ret.op \in MirrorOps
        => /\ \A u \in ret.uploads :
                 /\ MayFetch(u.link, u.link_obj, u.identifier)
                 /\ MayUpload(ret.fetch, u.was_mirrored)
           /\ \A f \in ret.fetches : MayFetch(f.link, f.link_obj, f.identifier)
           /\ (ret.op = "mirror_link"
                   /\ ~MayFetch(ret.link, ret.link_obj, ret.identifier))
                 => ret.fetches = {} /\ ret.uploads = {}

\* An upload has happened, and so has a call that did not even fetch.
C19_Witness ==
    /\ ret.op = "mirror_link"
    /\ ret.uploads # {}
    /\ mirrored # {}

C19_WitnessNoFetch ==
    /\ ret.op = "mirror_link"
    /\ ret.link_obj.identifier # ret.identifier
    /\ ret.link_obj.rel \in MIRRORED
    /\ ret.fetches = {}


\* C28: no call that runs mirror_link lifts a suppression: a pool that is
\* suppressed with a reason before the call is suppressed with a reason
\* after it, whatever the fetch and the mirror answer.
C28_SuppressionIsOneWay ==
    [][ret'.op \in MirrorOps
        => \A c \in DOMAIN pools :
              (pools[c].suppressed /\ pools[c].license_exception # None)
                 => /\ c \in DOMAIN pools'
                    /\ pools'[c].suppressed
                    /\ pools'[c].license_exception # None]_vars

\* An open-access link has been fetched and mirrored with success for a pool
\* that is suppressed: the suppression dates from an earlier failure.
C28_Witness ==
    /\ ret.op = "mirror_link"
    /\ ret.link.rel = OPEN_ACCESS_DOWNLOAD
    /\ ~ret.fetch.fetch_exception /\ ~ret.fetch.mirror_exception
    /\ \E u \in ret.uploads : u.link = ret.link
    /\ ret.model_object \in DOMAIN pools
    /\ pools[ret.model_object].suppressed
    /\ pools[ret.model_object].license_exception # None

(***************************************************************************)
(* Properties of guess_license_pools.                                      *)
(***************************************************************************)
\* The rows of the catalog that resemble the record in hand under the tier
\* of a confidence, for a contributor.
RowsMatching(confidence, contributor) ==
    LET md == metadata[1].md
        titled == {row \in ret.catalog.editions :
                      Lower(row.title) = Lower(md.fields["title"])
                          /\ row.medium = BOOK_MEDIUM}
    IN CASE confidence = 95 ->
              {row \in titled :
                  row.permanent_work_id = md.fields["permanent_work_id"]}
         [] confidence = 90 ->
              {row \in titled : row.sort_author = contributor.sort_name}
         [] confidence = 80 ->
              {row \in titled : row.author = contributor.display_name}
         [] confidence = 45 -> {row \in titled : row.author = UNKNOWN_AUTHOR}
         [] confidence = 30 -> titled
         [] OTHER -> {}

\* The confidences of the queries that ran and found the pool.
MatchedUnder(lp) == {q.confidence : q \in {r \in ret.runs : lp \in r.pools}}

Greatest(numbers) == CHOOSE n \in numbers : \A m \in numbers : m <= n

\* C20: the result of guess_license_pools holds, for every deliverable pool
\* that a query of some author found, the greatest confidence of those
\* queries, each query finding the pools of the editions that match its
\* tier; the potentials never lose a pool or lower a confidence from one
\* query to the next; and no pool that is not deliverable is in the result.
C20_HighestConfidenceKept ==
    (ret.op = "guess_license_pools" /\ ret.status = "ok")
        => /\ \A q \in ret.runs :
                 /\ q.confidence \in {95, 90, 80, 45, 30}
                 /\ q.pools = UNION {row.license_pools :
                                        row \in RowsMatching(q.confidence, q.contributor)}
           /\ DOMAIN ret.potentials =
                 {lp \in ret.catalog.deliverable : MatchedUnder(lp) # {}}
           /\ \A lp \in DOMAIN ret.potentials :
                 ret.potentials[lp] = Greatest(MatchedUnder(lp))
           /\ \A i \in 1..Len(ret.trace), j \in 1..Len(ret.trace) :
                 i <= j => \A lp \in DOMAIN ret.trace[i] :
                              /\ lp \in DOMAIN ret.trace[j]
                              /\ ret.trace[i][lp] <= ret.trace[j][lp]
           /\ ret.trace # <<>> => ret.potentials = ret.trace[Len(ret.trace)]
           /\ DOMAIN ret.potentials \subseteq ret.catalog.deliverable

\* A second author has raised the confidence of a pool that the first had
\* found by the title alone, while a pool that is not deliverable was found
\* and left out.
C20_Witness ==
    /\ ret.op = "guess_license_pools" /\ ret.status = "ok"
    /\ \E i \in 1..Len(ret.trace), j \in 1..Len(ret.trace), lp \in DOMAIN ret.potentials :
          /\ i < j /\ lp \in DOMAIN ret.trace[i]
          /\ ret.trace[i][lp] < ret.trace[j][lp]
    /\ \E q \in ret.runs : ~(q.pools \subseteq ret.catalog.deliverable)


\* The queries that ran for a contributor and found a deliverable pool.
MatchedFor(contributor) ==
    {q \in ret.runs : /\ q.contributor = contributor
                      /\ q.pools \cap ret.catalog.deliverable # {}}

\* C21: for every author of the record, no query looser than one that found
\* a deliverable pool for that author has run for that author.
C21_FirstMatchingTierOnly ==
    (ret.op = "guess_license_pools" /\ ret.status = "ok")
        => \A q \in ret.runs :
              \A m \in MatchedFor(q.contributor) : q.confidence >= m.confidence


(***************************************************************************)
(* Properties of calculate_permanent_work_id.                              *)
(***************************************************************************)
\* The places in the record's list of the contributors with a role.
Holding(role) ==
    {i \in 1..Len(metadata[1].md.contributors) :
        \E k \in 1..Len(metadata[1].md.contributors[i].roles) :
            metadata[1].md.contributors[i].roles[k] = role}

Least(places) == CHOOSE i \in places : \A k \in places : i <= k

\* C22: calculate_permanent_work_id gives no id, and leaves the record's id
\* alone, when no contributor is a primary author or an author; otherwise it
\* works from the first primary author, or without one from the first
\* author, and gives the id of (title, that author's sort name, "book").
C22_WorkIdFromPrimaryAuthor ==
    ret.op = "calculate_permanent_work_id"
        => LET md == metadata[1].md
               chosen == IF Holding(PRIMARY_AUTHOR_ROLE) # {}
                         THEN md.contributors[Least(Holding(PRIMARY_AUTHOR_ROLE))]
                         ELSE md.contributors[Least(Holding(AUTHOR_ROLE))]
           IN IF Holding(PRIMARY_AUTHOR_ROLE) \cup Holding(AUTHOR_ROLE) = {}
              THEN /\ ret.pwid = None
                   /\ md.fields["permanent_work_id"] = ret.old
              ELSE /\ ret.primary_author = chosen
                   /\ ret.pwid = PermanentId(NormalizeTitle(md.fields["title"]),
                                             NormalizeAuthor(chosen.sort_name), "book")
                   /\ md.fields["permanent_work_id"] = ret.pwid

\* A primary author listed after an author has been chosen.
C22_Witness ==
    /\ ret.op = "calculate_permanent_work_id"
    /\ Holding(PRIMARY_AUTHOR_ROLE) = {2} /\ Holding(AUTHOR_ROLE) = {1}
    /\ ret.primary_author = metadata[1].md.contributors[2]
    /\ ret.pwid = "pwid-mobydick-hawthorne"


(***************************************************************************)
(* Properties of Measurement.                                              *)
(***************************************************************************)
\* The percentile table a measurement is normalized with, <<>> without one.
TableOf(m) ==
    IF m.quantity_measured = POPULARITY /\ m.data_source \in DOMAIN POPULARITY_PERCENTILES
    THEN POPULARITY_PERCENTILES[m.data_source]
    ELSE IF m.quantity_measured = DOWNLOADS /\ m.data_source \in DOMAIN DOWNLOAD_PERCENTILES
    THEN DOWNLOAD_PERCENTILES[m.data_source]
    ELSE <<>>

\* C23: a measurement whose value is the entry at index k of the table of
\* its source normalizes to k hundredths (indexes counted from 0).
C23_PercentileRoundTrip ==
    ret.op = "normalized_value"
        => \A k \in 1..Len(TableOf(ret.measurement)) :
              TableOf(ret.measurement)[k] = ret.measurement.value
                  => ret.value = k - 1


\* The measurements of a call that belong to a category and normalize.
Normalizable(quantities) ==
    SelectSeq(ret.measurements,
              LAMBDA m : m.quantity_measured \in quantities
                            /\ NormalizedValue(m) # NoNumber)

\* Their mean by weight.
MeanOf(ms) ==
    LET places == 1..Len(ms)
        sum(f(_), upto) ==
            LET RECURSIVE partial(_)
                partial(n) == IF n = 0 THEN 0 ELSE f(n) + partial(n - 1)
            IN partial(upto)
        value(i) == NormalizedValue(ms[i]) * ms[i].weight
        weight(i) == ms[i].weight
    IN Fraction(sum(value, Len(ms)), sum(weight, Len(ms)))

\* C24: overall_quality returns the default when no category has a
\* measurement that normalizes, the mean of the category when one has, the
\* blend by weight of popularity and rating when those two have and, when a
\* quality measurement normalizes, to 0 as well, next to another category,
\* half the result of popularity and rating plus half the mean quality.
C24_OverallQualityBlend ==
    (ret.op = "overall_quality" /\ ret.status = "ok")
        => LET p == Normalizable({POPULARITY, DOWNLOADS})
               r == Normalizable({RATING})
               q == Normalizable({QUALITY})
               other == IF p # <<>> /\ r # <<>>
                        THEN Plus(Weighted(MeanOf(p), ret.popularity_weight),
                                  Weighted(MeanOf(r), ret.rating_weight))
                        ELSE IF p # <<>> THEN MeanOf(p) ELSE MeanOf(r)
           IN SameNumber(ret.value,
                 IF p = <<>> /\ r = <<>> /\ q = <<>> THEN Fraction(ret.default_value, 1)
                 ELSE IF r = <<>> /\ q = <<>> THEN MeanOf(p)
                 ELSE IF p = <<>> /\ q = <<>> THEN MeanOf(r)
                 ELSE IF p = <<>> /\ r = <<>> THEN MeanOf(q)
                 ELSE IF q = <<>> THEN other
                 ELSE Plus(Half(other), Half(MeanOf(q))))


(***************************************************************************)
(* Properties of update_contributions.                                     *)
(***************************************************************************)
\* How many contributions of an edition each contributor has.
IdentitiesOf(cs) ==
    [id \in {c.contributor : c \in cs} |->
        Cardinality({c \in cs : c.contributor = id})]

\* C25: under the replace policy update_contributions reports a change
\* exactly when the contributors of the edition's contributions, counted
\* with their multiplicity, differ before and after the call; under the
\* append policy it reports a change whenever the record has contributors.
C25_ChangedIffContributorsDiffer ==
    (ret.op = "update_contributions" /\ ret.status = "ok")
        => IF ret.replace
           THEN ret.changed <=> IdentitiesOf(ret.contributions) # IdentitiesOf(contributions)
           ELSE metadata[1].md.contributors # <<>> => ret.changed

\* The contributors of the record in hand that bring a sort name or an id,
\* and those that bring none and whose display name the store does not know.
Identified ==
    {c \in {metadata[1].md.contributors[i] : i \in 1..Len(metadata[1].md.contributors)} :
        c.sort_name # None \/ c.lc # None \/ c.viaf # None}
Unidentified ==
    {c \in {metadata[1].md.contributors[i] : i \in 1..Len(metadata[1].md.contributors)} :
        /\ c.sort_name = None /\ c.lc = None /\ c.viaf = None
        /\ \A p \in ret.contributors : p.display_name # c.display_name}

\* C26: a contributor merge raises nothing; a contributor without sort name,
\* lc and viaf, with or without a display name, adds no Contributor, and
\* every other contributor of the record has its contributions afterwards.
C26_UnidentifiedContributorsSkipped ==
    ret.op = "update_contributions"
        => /\ ret.status = "ok"
           /\ Unidentified # {} /\ Identified = {} => contributors = ret.contributors
           /\ \A c \in Identified : \A i \in 1..Len(c.roles) :
                 [contributor |-> ContributorId(c), role |-> c.roles[i]] \in contributions


(***************************************************************************)
(* Properties of ContributorData.apply.                                    *)
(***************************************************************************)
\* C27: ContributorData.apply leaves no populated field of the destination
\* empty, keeps every item of extra, keeps the aliases there were and adds
\* no empty one, returns made_changes exactly when the destination differs
\* afterwards, and returns False when the same record is applied again.
C27_ApplyOnlyAdds ==
    ret.op = "ContributorData.apply"
        => /\ \A f \in ContributorFields :
                 ret.destination[f] # None => ret.result[f] # None
           /\ ret.destination.extra \subseteq ret.result.extra
           /\ Len(ret.result.aliases) >= Len(ret.destination.aliases)
           /\ SubSeq(ret.result.aliases, 1, Len(ret.destination.aliases))
                 = ret.destination.aliases
           /\ \A i \in 1..Len(ret.result.aliases) :
                 i > Len(ret.destination.aliases) => ret.result.aliases[i] # None
           /\ ret.made_changes <=> ret.result # ret.destination
           /\ ret.again => ~ret.made_changes


(***************************************************************************)
(* The whole machine: every operation with every input of the model.       *)
(***************************************************************************)
Fetches ==
    {NoFetch, FetchOutcome(TRUE, 200, TRUE, FALSE), FetchOutcome(FALSE, 404, TRUE, FALSE),
     FetchOutcome(FALSE, 200, TRUE, TRUE)}
Policies ==
    {ReplacementPolicy, FromLicenseSource, FromMetadataSource, ForcedPolicy,
     [FromLicenseSource EXCEPT !.mirror = TRUE]}

Next ==
    \/ Tick
    \/ \E loan \in Loans, m \in lpdms : FulfillLoan(loan, m)
    \/ \E args \in AvailabilityArgs \cup FormatsArgs \cup LicensedArgs \cup LinkedArgs
                      \cup MirroredArgs :
          NewCirculationData(args)
    \/ \E collection \in CollectionArgs, replace \in Policies, fetch \in Fetches :
          CirculationDataApply(collection, replace, fetch)
    \/ \E args \in BibliographicArgs \cup DescribedArgs \cup IllustratedArgs
                      \cup FieldArgs \cup ContributorArgs \cup SubjectArgs
                      \cup HyperlinkArgs \cup CoveredArgs \cup GuessArgs :
          NewMetadata(args)
    \/ \E collection \in CollectionArgs, replace \in Policies, fetch \in Fetches :
          MetadataApplyCall(collection, replace, fetch)
    \/ \E arg_links \in CirculationLinkLists : SetCirculationLinks(arg_links)
    \/ \E arg_links \in MetadataLinkLists : SetMetadataLinks(arg_links)
    \/ \E model_object \in {None, "edition"} \cup Collections,
          link \in MirroredLinks, identifier \in {"id1", "id2"},
          fetch \in Fetches :
          MirrorLinkCall(model_object, link, LinkObj(link.rel, identifier), fetch)
    \/ \E catalog \in Catalogs : GuessLicensePoolsCall(catalog)

Spec == Init /\ [][Next]_vars

====
